---- MODULE Spec2Model ----
(***************************************************************************)
(* Sparse CSR mesh intersection (subsetix): the mesh container, the        *)
(* per-row two-pointer interval merge and the phased intersection engine   *)
(* intersect_meshes, modelled kernel by kernel.                            *)
(*                                                                         *)
(* Kokkos views are modelled as functions over 0 .. extent-1, so that the  *)
(* indices of the model are the indices of the source.  A view constructed *)
(* with a label is value-initialised by Kokkos: every element starts as    *)
(* zero (Interval{0,0}, RowKey{0,0}, 0).                                   *)
(***************************************************************************)
EXTENDS Integers, Sequences, FiniteSets, TLC

\* Largest combined size of the two inputs: A.num_intervals + B.num_intervals.
MaxTotalIntervals == 5

\* Largest interval bound in a direct call of the per-row merge.
MaxMergeCoord == 4

\* Universe of interval bounds on the X axis, and of y and z row coordinates.
XCoords == 0 .. 2
YCoords == 0 .. 1
ZCoords == 0 .. 1

----------------------------------------------------------------------------
(* mesh.hpp: Interval, RowKey, Mesh3D *)

Interval == { iv \in [begin : XCoords, end : XCoords] : iv.begin < iv.end }

RowKey == [y : YCoords, z : ZCoords]

\* RowKey::operator<
RowKeyLess(k1, k2) == IF k1.y # k2.y THEN k1.y < k2.y ELSE k1.z < k2.z

ZeroInterval == [begin |-> 0, end |-> 0]

ZeroRowKey == [y |-> 0, z |-> 0]

\* A default-constructed view: extent 0.
EmptyView == [i \in {} |-> 0]

\* Kokkos::View<T*>(label, n): n value-initialised elements.
NewView(n, zero) == [i \in 0 .. n - 1 |-> zero]

Extent(view) == Cardinality(DOMAIN view)

\* Mesh3D<MemorySpace>{}: three empty views, num_rows = num_intervals = 0.
EmptyMesh ==
  [row_keys |-> EmptyView, row_ptr |-> EmptyView, intervals |-> EmptyView,
   num_rows |-> 0, num_intervals |-> 0]

----------------------------------------------------------------------------
(* The mesh invariants I1-I4 of the data model, as predicates on a mesh. *)

I1(M) ==
  \A r \in 1 .. M.num_rows - 1 : RowKeyLess(M.row_keys[r - 1], M.row_keys[r])

I2(M) ==
  M.num_rows > 0 =>
    /\ M.row_ptr[0] = 0
    /\ M.row_ptr[M.num_rows] = M.num_intervals
    /\ \A r \in 0 .. M.num_rows - 1 : M.row_ptr[r] <= M.row_ptr[r + 1]

I3(M) ==
  \A r \in 0 .. M.num_rows - 1 :
    \A k \in M.row_ptr[r] .. M.row_ptr[r + 1] - 1 :
      /\ M.intervals[k].begin < M.intervals[k].end
      /\ k > M.row_ptr[r] => M.intervals[k - 1].end <= M.intervals[k].begin

I4(M) ==
  \A r \in 0 .. M.num_rows - 1 : M.row_ptr[r] < M.row_ptr[r + 1]

\* Cells of a mesh, read through row_keys, row_ptr and intervals.
Cells(M) ==
  UNION { { <<x, M.row_keys[r].y, M.row_keys[r].z>> :
              x \in UNION { M.intervals[k].begin .. M.intervals[k].end - 1 :
                              k \in M.row_ptr[r] .. M.row_ptr[r + 1] - 1 } } :
          r \in 0 .. M.num_rows - 1 }

\* meshes_equal of the test suite: sizes, row_keys, row_ptr (with the last
\* entry) and the first num_intervals intervals.
meshes_equal(a, b) ==
  /\ a.num_rows = b.num_rows
  /\ a.num_intervals = b.num_intervals
  /\ \A i \in 0 .. a.num_rows - 1 :
       a.row_keys[i] = b.row_keys[i] /\ a.row_ptr[i] = b.row_ptr[i]
  /\ a.num_rows > 0 => a.row_ptr[a.num_rows] = b.row_ptr[b.num_rows]
  /\ \A i \in 0 .. a.num_intervals - 1 : a.intervals[i] = b.intervals[i]

\* Meshes as make_mesh_device builds them (exact extents) whose row keys
\* increase and whose row_ptr starts at 0, increases and ends at ni.
MeshesOfShape(nr, ni) ==
  { [row_keys |-> rk, row_ptr |-> rp, intervals |-> iv,
     num_rows |-> nr, num_intervals |-> ni] :
      rk \in { f \in [0 .. nr - 1 -> RowKey] :
                 \A r \in 1 .. nr - 1 : RowKeyLess(f[r - 1], f[r]) },
      rp \in { f \in [0 .. nr -> 0 .. ni] :
                 /\ f[0] = 0
                 /\ f[nr] = ni
                 /\ \A r \in 0 .. nr - 1 : f[r] < f[r + 1] },
      iv \in [0 .. ni - 1 -> Interval] }

\* Shapes (num_rows, num_intervals) of the non-empty input meshes: under I1 a
\* mesh has no more rows than there are keys, under I4 no more rows than
\* intervals.
Shapes ==
  { sh \in (1 .. Cardinality(RowKey)) \X (1 .. MaxTotalIntervals) : sh[1] <= sh[2] }

\* Every input mesh that satisfies I1-I4 within the bounds.
ValidMeshes ==
  {EmptyMesh} \cup
  UNION { { M \in MeshesOfShape(sh[1], sh[2]) : I1(M) /\ I2(M) /\ I3(M) /\ I4(M) } :
          sh \in Shapes }

\* The pairs of inputs of a call: two valid meshes of bounded combined size.
ValidInputs ==
  { pair \in ValidMeshes \X ValidMeshes :
      pair[1].num_intervals + pair[2].num_intervals <= MaxTotalIntervals }

----------------------------------------------------------------------------
(* detail/utils.hpp *)

\* The binary-search loop of find_row_by_yz: the final value of lo.
RECURSIVE find_row_loop(_, _, _, _, _)
find_row_loop(rows, lo, hi, y, z) ==
  IF lo < hi
  THEN LET mid == lo + (hi - lo) \div 2
           key == rows[mid]
       IN  IF key.y < y \/ (key.y = y /\ key.z < z)
           THEN find_row_loop(rows, mid + 1, hi, y, z)
           ELSE find_row_loop(rows, lo, mid, y, z)
  ELSE lo

\* Variant: the final equality test compares y only.
find_row_by_y_only(rows, num_rows, y, z) ==
  LET lo == find_row_loop(rows, 0, num_rows, y, z)
  IN  IF lo < num_rows /\ rows[lo].y = y THEN lo ELSE -1

find_row_by_yz(rows, num_rows, y, z) ==
  LET lo == find_row_loop(rows, 0, num_rows, y, z)
  IN  IF lo < num_rows /\ rows[lo].y = y /\ rows[lo].z = z THEN lo ELSE -1

extract_row_ranges(ia, ib, row_ptr_a, row_ptr_b) ==
  [begin_a |-> IF ia >= 0 THEN row_ptr_a[ia] ELSE 0,
   end_a   |-> IF ia >= 0 THEN row_ptr_a[ia + 1] ELSE 0,
   begin_b |-> IF ib >= 0 THEN row_ptr_b[ib] ELSE 0,
   end_b   |-> IF ib >= 0 THEN row_ptr_b[ib + 1] ELSE 0]

\* Variant: the view is reallocated whenever its extent differs from the
\* required size.
ensure_view_capacity_exact(view, required_size) ==
  IF Extent(view) # required_size THEN NewView(required_size, 0) ELSE view

\* ensure_view_capacity: reallocate (contents lost) only when too small.
ensure_view_capacity(view, required_size) ==
  IF Extent(view) < required_size THEN NewView(required_size, 0) ELSE view

----------------------------------------------------------------------------
(* intersection.hpp: detail::row_intersection_impl *)

\* max(a.begin, b.begin), min(a.end, b.end) and the emptiness test of the
\* candidate overlap [start, end).
overlap_start(a, b) == IF a.begin > b.begin THEN a.begin ELSE b.begin

\* Variant: the end of the overlap is always taken from b.
overlap_end_of_b(a, b) == b.end

overlap_end(a, b) == IF a.end < b.end THEN a.end ELSE b.end

\* Variant: touching intervals (start = end) count as an overlap.
overlap_nonempty_or_touching(start, end) == start <= end

overlap_nonempty(start, end) == start < end

\* The while loop of row_intersection_impl from cursor (ia, ib) with count
\* intervals found so far; the result is the final count and output view.
RECURSIVE row_intersection_loop(_, _, _, _, _, _, _, _, _, _)
row_intersection_loop(CountOnly, intervals_a, ia, end_a, intervals_b, ib, end_b, intervals_out, out_offset, count) ==
  IF ia < end_a /\ ib < end_b
  THEN LET a == intervals_a[ia]
           b == intervals_b[ib]
           start == overlap_start(a, b)
           end == overlap_end(a, b)
           emit == overlap_nonempty(start, end)
           out1 == IF emit /\ ~CountOnly
                   THEN [intervals_out EXCEPT
                           ![out_offset + count] = [begin |-> start, end |-> end]]
                   ELSE intervals_out
           count1 == IF emit THEN count + 1 ELSE count
           ia1 == IF a.end < b.end THEN ia + 1
                  ELSE IF b.end < a.end THEN ia ELSE ia + 1
           ib1 == IF a.end < b.end THEN ib
                  ELSE IF b.end < a.end THEN ib + 1 ELSE ib + 1
       IN  row_intersection_loop(CountOnly, intervals_a, ia1, end_a,
                                 intervals_b, ib1, end_b, out1, out_offset, count1)
  ELSE [count |-> count, out |-> intervals_out]

\* Variant: both cursors start at element 0 of their views.
row_intersection_impl_from_zero(CountOnly, intervals_a, begin_a, end_a, intervals_b, begin_b, end_b, intervals_out, out_offset) ==
  row_intersection_loop(CountOnly, intervals_a, 0, end_a,
                        intervals_b, 0, end_b, intervals_out, out_offset, 0)

\* Variant: the count-only instantiation returns the worst case, the sum of
\* the two run lengths, without merging.
row_intersection_impl_count_worst_case(CountOnly, intervals_a, begin_a, end_a, intervals_b, begin_b, end_b, intervals_out, out_offset) ==
  IF CountOnly
  THEN [count |-> (end_a - begin_a) + (end_b - begin_b), out |-> intervals_out]
  ELSE row_intersection_loop(CountOnly, intervals_a, begin_a, end_a,
                             intervals_b, begin_b, end_b, intervals_out, out_offset, 0)

row_intersection_impl(CountOnly, intervals_a, begin_a, end_a, intervals_b, begin_b, end_b, intervals_out, out_offset) ==
  row_intersection_loop(CountOnly, intervals_a, begin_a, end_a,
                        intervals_b, begin_b, end_b, intervals_out, out_offset, 0)

\* Variant: the interval array is allocated at half the requested capacity.
allocate_mesh_device_half_intervals(row_capacity, interval_capacity) ==
  [row_keys  |-> IF row_capacity > 0 THEN NewView(row_capacity, ZeroRowKey)
                 ELSE EmptyView,
   row_ptr   |-> IF row_capacity > 0 THEN NewView(row_capacity + 1, 0)
                 ELSE EmptyView,
   intervals |-> IF interval_capacity \div 2 > 0
                 THEN NewView(interval_capacity \div 2, ZeroInterval) ELSE EmptyView,
   num_rows |-> 0, num_intervals |-> 0]

allocate_mesh_device(row_capacity, interval_capacity) ==
  [row_keys  |-> IF row_capacity > 0 THEN NewView(row_capacity, ZeroRowKey)
                 ELSE EmptyView,
   row_ptr   |-> IF row_capacity > 0 THEN NewView(row_capacity + 1, 0)
                 ELSE EmptyView,
   intervals |-> IF interval_capacity > 0
                 THEN NewView(interval_capacity, ZeroInterval) ELSE EmptyView,
   num_rows |-> 0, num_intervals |-> 0]

----------------------------------------------------------------------------
(* intersection.hpp: the kernels of intersect_meshes, one operator each.   *)
(* The iterations of a parallel_for write pairwise distinct elements, so a *)
(* kernel is the function from the views it reads to the views it writes.  *)

\* Variant: the guard returns early only when both inputs are empty.
empty_input_both(Ma, Mb) == Ma.num_rows = 0 /\ Mb.num_rows = 0

\* if (A.num_rows == 0 || B.num_rows == 0) return Mesh3DDevice{};
empty_input(Ma, Mb) == Ma.num_rows = 0 \/ Mb.num_rows = 0

choose_small_is_a(Ma, Mb) == Ma.num_rows <= Mb.num_rows

n_small_of(Ma, Mb, sia) == IF sia THEN Ma.num_rows ELSE Mb.num_rows

n_big_of(Ma, Mb, sia) == IF sia THEN Mb.num_rows ELSE Ma.num_rows

\* Variant: the driving keys are always those of A.
rows_small_always_a(Ma, Mb, sia) == Ma.row_keys

rows_small_of(Ma, Mb, sia) == IF sia THEN Ma.row_keys ELSE Mb.row_keys

rows_big_of(Ma, Mb, sia) == IF sia THEN Mb.row_keys ELSE Ma.row_keys

\* Variant: the row index of the smaller side is always stored as the index
\* into A.
intersection_row_map_without_swap(rows_small, rows_big, n_small, n_big, sia) ==
  LET idx_big(i) == find_row_by_yz(rows_big, n_big, rows_small[i].y, rows_small[i].z)
  IN  [flags     |-> [i \in 0 .. n_small - 1 |-> IF idx_big(i) >= 0 THEN 1 ELSE 0],
       tmp_idx_a |-> [i \in 0 .. n_small - 1 |->
                        IF idx_big(i) >= 0 THEN i ELSE -1],
       tmp_idx_b |-> [i \in 0 .. n_small - 1 |->
                        IF idx_big(i) >= 0 THEN idx_big(i) ELSE -1]]

\* "intersection_row_map": one binary search per row of the smaller side.
intersection_row_map(rows_small, rows_big, n_small, n_big, sia) ==
  LET idx_big(i) == find_row_by_yz(rows_big, n_big, rows_small[i].y, rows_small[i].z)
  IN  [flags     |-> [i \in 0 .. n_small - 1 |-> IF idx_big(i) >= 0 THEN 1 ELSE 0],
       tmp_idx_a |-> [i \in 0 .. n_small - 1 |->
                        IF idx_big(i) >= 0
                        THEN (IF sia THEN i ELSE idx_big(i)) ELSE -1],
       tmp_idx_b |-> [i \in 0 .. n_small - 1 |->
                        IF idx_big(i) >= 0
                        THEN (IF sia THEN idx_big(i) ELSE i) ELSE -1]]

\* The value of `update` when iteration i of a parallel_scan makes its final
\* pass: counts(0) + ... + counts(i-1).
RECURSIVE scan_update(_, _)
scan_update(counts, i) ==
  IF i = 0 THEN 0 ELSE scan_update(counts, i - 1) + counts[i - 1]

\* Variant: positions(i) receives the running sum including element i.
parallel_scan_inclusive(counts, n) ==
  [positions |-> [i \in 0 .. n - 1 |-> scan_update(counts, i + 1)],
   total     |-> IF n > 0 THEN scan_update(counts, n) ELSE 0]

\* The three parallel_scan lambdas: positions(i) = update, and the scalar
\* view (zero-initialised) receives update + count from the last iteration.
parallel_scan(counts, n) ==
  [positions |-> [i \in 0 .. n - 1 |-> scan_update(counts, i)],
   total     |-> IF n > 0 THEN scan_update(counts, n) ELSE 0]

\* Variant: the scatter fills dst from its end.
scatter_from_end(flagged, pos, src, n, dst) ==
  [p \in DOMAIN dst |->
     IF \E i \in 0 .. n - 1 : flagged[i] # 0 /\ Extent(dst) - 1 - pos[i] = p
     THEN src[CHOOSE i \in 0 .. n - 1 :
                flagged[i] # 0 /\ Extent(dst) - 1 - pos[i] = p]
     ELSE dst[p]]

\* dst(pos(i)) = src(i) for every flagged i below n.
scatter(flagged, pos, src, n, dst) ==
  [p \in DOMAIN dst |->
     IF \E i \in 0 .. n - 1 : flagged[i] # 0 /\ pos[i] = p
     THEN src[CHOOSE i \in 0 .. n - 1 : flagged[i] # 0 /\ pos[i] = p]
     ELSE dst[p]]

\* Variant: the last row of each input is taken to end at num_intervals.
intersection_count_to_num_intervals(idx_a, idx_b, Ma, Mb, n_out, counts) ==
  LET end_of(M, row, e) == IF row + 1 = M.num_rows THEN M.num_intervals ELSE e
      count_of(i) ==
        IF idx_a[i] < 0 \/ idx_b[i] < 0 THEN 0
        ELSE LET r == extract_row_ranges(idx_a[i], idx_b[i], Ma.row_ptr, Mb.row_ptr)
             IN  IF r.begin_a = r.end_a \/ r.begin_b = r.end_b THEN 0
                 ELSE row_intersection_impl(TRUE, Ma.intervals, r.begin_a,
                                            end_of(Ma, idx_a[i], r.end_a),
                                            Mb.intervals, r.begin_b,
                                            end_of(Mb, idx_b[i], r.end_b),
                                            EmptyView, 0).count
  IN  [i \in DOMAIN counts |-> IF i < n_out THEN count_of(i) ELSE counts[i]]

\* Variant: each count is added to what the buffer already holds.
intersection_count_accumulating(idx_a, idx_b, Ma, Mb, n_out, counts) ==
  LET count_of(i) ==
        IF idx_a[i] < 0 \/ idx_b[i] < 0 THEN 0
        ELSE LET r == extract_row_ranges(idx_a[i], idx_b[i], Ma.row_ptr, Mb.row_ptr)
             IN  IF r.begin_a = r.end_a \/ r.begin_b = r.end_b THEN 0
                 ELSE row_intersection_impl(TRUE, Ma.intervals, r.begin_a, r.end_a,
                                            Mb.intervals, r.begin_b, r.end_b,
                                            EmptyView, 0).count
  IN  [i \in DOMAIN counts |->
         IF i < n_out THEN counts[i] + count_of(i) ELSE counts[i]]

\* "intersection_count": the merge in count-only mode for each matched row.
intersection_count(idx_a, idx_b, Ma, Mb, n_out, counts) ==
  LET count_of(i) ==
        IF idx_a[i] < 0 \/ idx_b[i] < 0 THEN 0
        ELSE LET r == extract_row_ranges(idx_a[i], idx_b[i], Ma.row_ptr, Mb.row_ptr)
             IN  IF r.begin_a = r.end_a \/ r.begin_b = r.end_b THEN 0
                 ELSE row_intersection_impl(TRUE, Ma.intervals, r.begin_a, r.end_a,
                                            Mb.intervals, r.begin_b, r.end_b,
                                            EmptyView, 0).count
  IN  [i \in DOMAIN counts |-> IF i < n_out THEN count_of(i) ELSE counts[i]]

\* "intersection_scan": out.row_ptr(0 .. R) and the total.
intersection_scan(counts, n_out, row_ptr) ==
  LET sc == parallel_scan(counts, n_out)
  IN  [row_ptr |-> [i \in DOMAIN row_ptr |->
                      IF i < n_out THEN sc.positions[i]
                      ELSE IF i = n_out /\ n_out > 0 THEN sc.total
                      ELSE row_ptr[i]],
       total   |-> sc.total]

\* Variant: every row is emitted at offset 0.
fill_row_at_zero(i, idx_a, idx_b, Ma, Mb, row_ptr_out, intervals_out) ==
  IF idx_a[i] < 0 \/ idx_b[i] < 0 THEN intervals_out
  ELSE LET r == extract_row_ranges(idx_a[i], idx_b[i], Ma.row_ptr, Mb.row_ptr)
       IN  IF r.begin_a = r.end_a \/ r.begin_b = r.end_b THEN intervals_out
           ELSE row_intersection_impl(FALSE, Ma.intervals, r.begin_a, r.end_a,
                                      Mb.intervals, r.begin_b, r.end_b,
                                      intervals_out, 0).out

\* Iteration i of "intersection_fill": row i emitted at offset row_ptr_out(i).
fill_row(i, idx_a, idx_b, Ma, Mb, row_ptr_out, intervals_out) ==
  IF idx_a[i] < 0 \/ idx_b[i] < 0 THEN intervals_out
  ELSE LET r == extract_row_ranges(idx_a[i], idx_b[i], Ma.row_ptr, Mb.row_ptr)
       IN  IF r.begin_a = r.end_a \/ r.begin_b = r.end_b THEN intervals_out
           ELSE row_intersection_impl(FALSE, Ma.intervals, r.begin_a, r.end_a,
                                      Mb.intervals, r.begin_b, r.end_b,
                                      intervals_out, row_ptr_out[i]).out

\* "intersection_fill": iterations 0 .. n-1 applied to intervals_out.
RECURSIVE intersection_fill(_, _, _, _, _, _, _)
intersection_fill(n, idx_a, idx_b, Ma, Mb, row_ptr_out, intervals_out) ==
  IF n = 0 THEN intervals_out
  ELSE fill_row(n - 1, idx_a, idx_b, Ma, Mb, row_ptr_out,
                intersection_fill(n - 1, idx_a, idx_b, Ma, Mb, row_ptr_out,
                                  intervals_out))

\* "intersection_mark_rows"
intersection_mark_rows(row_ptr, n_out) ==
  [i \in 0 .. n_out - 1 |-> IF row_ptr[i] < row_ptr[i + 1] THEN 1 ELSE 0]

\* Number of kept rows before row j (the local `count` of the row_ptr kernel
\* when its inner loop reaches j).
RECURSIVE kept_before(_, _)
kept_before(has, j) ==
  IF j = 0 THEN 0
  ELSE kept_before(has, j - 1) + (IF has[j - 1] # 0 THEN 1 ELSE 0)

\* "intersection_compact_row_ptr": iteration 0 writes 0; iteration i > 0 writes
\* out.row_ptr(j) for the kept row j that has exactly i kept rows before it,
\* and writes nothing when there is no such row.
intersection_compact_row_ptr(has, out_row_ptr, n_out, final_rows, dst) ==
  [i \in DOMAIN dst |->
     IF i > final_rows THEN dst[i]
     ELSE IF i = 0 THEN 0
     ELSE IF \E j \in 0 .. n_out - 1 : has[j] # 0 /\ kept_before(has, j) = i
          THEN out_row_ptr[CHOOSE j \in 0 .. n_out - 1 :
                             has[j] # 0 /\ kept_before(has, j) = i]
          ELSE dst[i]]

\* "intersection_compact_intervals"
intersection_compact_intervals(src, n, dst) ==
  [i \in DOMAIN dst |-> IF i < n THEN src[i] ELSE dst[i]]

----------------------------------------------------------------------------
(* State of one call intersect_meshes(A, B) through the convenience        *)
(* overload, which hands the engine a fresh IntersectionWorkspace.         *)

VARIABLES
  A, B,               \* the input meshes
  size_t_bufs_,       \* IntersectionWorkspace::size_t_bufs_
  pc,                 \* position of the call
  dispatched,         \* labels of the kernels dispatched so far, in order
  small_is_a,
  flags, tmp_idx_a, tmp_idx_b, positions,
  num_rows_out,
  out_rows, out_idx_a, out_idx_b,
  out,                \* the intermediate output mesh
  has_intervals, new_positions, final_num_rows,
  compacted,
  result,             \* the returned mesh
  xfer_pc,            \* position of a mesh_to round trip
  xfer_src,           \* the mesh handed to mesh_to
  host, device,       \* its copy in the other region, and the copy of that copy
  merge_pc,           \* position of a direct call of row_intersection_impl
  merge_in,           \* the arguments of that call
  merge_out,          \* its return value and the output view afterwards
  merge_cur,          \* the cursors ia, ib of that call while its loop runs
  program_order,      \* device operations of the call so far: kernels, fences, deep copies
  fill_threads,       \* position of each iteration of the fill kernel while it runs
  call,               \* number of the current intersect_meshes call on the workspace
  ws_alloc,           \* the allocation behind each workspace buffer
  result_alloc,       \* the allocations behind the three arrays of the returned mesh
  held,               \* the meshes returned by earlier calls, still held by the caller
  search,             \* a direct call of find_row_by_yz: arguments, lo, hi, return
  requests            \* the get_size_t_buf requests made directly on the workspace

engine_vars ==
  <<A, B, size_t_bufs_, pc, dispatched, small_is_a, flags, tmp_idx_a, tmp_idx_b,
    positions, num_rows_out, out_rows, out_idx_a, out_idx_b, out, has_intervals,
    new_positions, final_num_rows, compacted, result, program_order, fill_threads,
    call, ws_alloc, result_alloc, held>>

transfer_vars == <<xfer_pc, xfer_src, host, device>>

merge_vars == <<merge_pc, merge_in, merge_out, merge_cur>>

direct_vars == <<search, requests>>

vars == <<engine_vars, transfer_vars, merge_vars, direct_vars>>

NUM_SIZE_T_BUFS == 2

\* IntersectionWorkspace ws; (default-constructed: every buffer has extent 0)
NewWorkspace == [b \in 0 .. NUM_SIZE_T_BUFS - 1 |-> EmptyView]

\* IntersectionWorkspace::get_size_t_buf(idx, size): the workspace afterwards.
get_size_t_buf(bufs, idx, size) ==
  [bufs EXCEPT ![idx] = ensure_view_capacity(bufs[idx], size)]

n_small == n_small_of(A, B, small_is_a)

n_big == n_big_of(A, B, small_is_a)

rows_small == rows_small_of(A, B, small_is_a)

rows_big == rows_big_of(A, B, small_is_a)

\* row_counts aliases workspace buffer 0 for the duration of the call.
row_counts == size_t_bufs_[0]

----------------------------------------------------------------------------
(* Allocations.  A Kokkos::View is a handle to an allocation: the View      *)
(* constructor with a label makes a new allocation, a copy of a view is a   *)
(* second handle to the same one.  An allocation is named by the number of  *)
(* the call that made it (0: made before the first call, by the caller or   *)
(* by an earlier user of the workspace) and by the view that first held it. *)

allocation(c, view) == [call |-> c, view |-> view]

\* A default-constructed view has no allocation.
NullAlloc == allocation(0, "null")

\* Mesh3DDevice{}: three default-constructed views.
NoArrays == [row_keys |-> NullAlloc, row_ptr |-> NullAlloc, intervals |-> NullAlloc]

\* Variant: the row_ptr of the mesh is scanned in place in workspace buffer 0.
mesh_allocs_row_ptr_in_workspace(c, name, row_capacity, interval_capacity) ==
  [row_keys  |-> allocation(c, name \o ".row_keys"),
   row_ptr   |-> ws_alloc[0],
   intervals |-> allocation(c, name \o ".intervals")]

\* The allocations behind the mesh that allocate_mesh_device returns to the
\* variable `name` in call c.
mesh_allocs(c, name, row_capacity, interval_capacity) ==
  [row_keys  |-> IF row_capacity > 0 THEN allocation(c, name \o ".row_keys")
                 ELSE NullAlloc,
   row_ptr   |-> IF row_capacity > 0 THEN allocation(c, name \o ".row_ptr")
                 ELSE NullAlloc,
   intervals |-> IF interval_capacity > 0 THEN allocation(c, name \o ".intervals")
                 ELSE NullAlloc]

\* The arrays of the two inputs.
InputAllocs ==
  { allocation(0, m \o f) : m \in {"A", "B"}, f \in {".row_keys", ".row_ptr", ".intervals"} }

\* "intersection_ws_size_t_" + std::to_string(idx)
ws_label(idx) ==
  IF idx = 0 THEN "intersection_ws_size_t_0" ELSE "intersection_ws_size_t_1"

\* A workspace that was never used: no buffer is allocated.
NoWsAllocs == [b \in 0 .. NUM_SIZE_T_BUFS - 1 |-> NullAlloc]

\* get_size_t_buf(idx, size) in call c, on the handles: ensure_view_capacity
\* assigns a new view to the slot only when the extent is too small.
get_size_t_buf_alloc(allocs, bufs, idx, size, c) ==
  IF Extent(bufs[idx]) < size
  THEN [allocs EXCEPT ![idx] = allocation(c, ws_label(idx))]
  ELSE allocs

\* Mesh M, whose arrays are the allocations al, after a kernel has stored
\* `contents` in allocation a.
seen_through(M, al, a, contents) ==
  [row_keys  |-> IF al.row_keys = a THEN contents ELSE M.row_keys,
   row_ptr   |-> IF al.row_ptr = a THEN contents ELSE M.row_ptr,
   intervals |-> IF al.intervals = a THEN contents ELSE M.intervals,
   num_rows |-> M.num_rows, num_intervals |-> M.num_intervals]

\* The meshes the caller holds, after a kernel of the current call has
\* stored `contents` in allocation a.
held_after_write(a, contents) ==
  [h \in DOMAIN held |->
     [mesh |-> seen_through(held[h].mesh, held[h].alloc, a, contents),
      alloc |-> held[h].alloc]]

----------------------------------------------------------------------------
(* Device operations in program order.  parallel_for and parallel_scan     *)
(* return when the kernel is enqueued; Kokkos::fence() returns when every  *)
(* enqueued kernel has finished; Kokkos::deep_copy(dst, src) copies src.   *)

dispatch(order, label) == Append(order, label)

\* Variant: Kokkos::fence() is left out.
fence_elided(order) == order

fence(order) == Append(order, "fence")

deep_copy(order, dst, src) == Append(order, "deep_copy(" \o dst \o ", " \o src \o ")")

\* The views whose elements each device operation reads.
reads_of(op) ==
  CASE op = "intersection_row_map" -> {"A.row_keys", "B.row_keys"}
    [] op = "intersection_row_scan" -> {"flags"}
    [] op = "deep_copy(num_rows_out_host, num_rows_out_view)" -> {"num_rows_out_view"}
    [] op = "intersection_row_compact" ->
         {"flags", "positions", "A.row_keys", "B.row_keys", "tmp_idx_a", "tmp_idx_b"}
    [] op = "deep_copy(out.row_keys, out_rows)" -> {"out_rows"}
    [] op = "intersection_count" ->
         {"out_idx_a", "out_idx_b", "A.row_ptr", "B.row_ptr", "A.intervals",
          "B.intervals"}
    [] op = "intersection_scan" -> {"row_counts"}
    [] op = "deep_copy(num_intervals_host, total_view)" -> {"total_view"}
    [] op = "intersection_fill" ->
         {"out_idx_a", "out_idx_b", "A.row_ptr", "B.row_ptr", "A.intervals",
          "B.intervals", "out.row_ptr"}
    [] op = "intersection_mark_rows" -> {"out.row_ptr"}
    [] op = "intersection_compact_scan" -> {"has_intervals"}
    [] op = "deep_copy(final_num_rows, final_num_rows_view)" -> {"final_num_rows_view"}
    [] op = "intersection_compact_rows" ->
         {"has_intervals", "new_positions", "out.row_keys"}
    [] op = "intersection_compact_row_ptr" -> {"has_intervals", "out.row_ptr"}
    [] op = "intersection_compact_intervals" -> {"out.intervals"}
    [] OTHER -> {}

\* The views whose elements each device operation writes.
writes_of(op) ==
  CASE op = "intersection_row_map" -> {"flags", "tmp_idx_a", "tmp_idx_b"}
    [] op = "intersection_row_scan" -> {"positions", "num_rows_out_view"}
    [] op = "intersection_row_compact" -> {"out_rows", "out_idx_a", "out_idx_b"}
    [] op = "deep_copy(out.row_keys, out_rows)" -> {"out.row_keys"}
    [] op = "intersection_count" -> {"row_counts"}
    [] op = "intersection_scan" -> {"out.row_ptr", "total_view"}
    [] op = "intersection_fill" -> {"out.intervals"}
    [] op = "intersection_mark_rows" -> {"has_intervals"}
    [] op = "intersection_compact_scan" -> {"new_positions", "final_num_rows_view"}
    [] op = "intersection_compact_rows" -> {"compacted.row_keys"}
    [] op = "intersection_compact_row_ptr" -> {"compacted.row_ptr"}
    [] op = "intersection_compact_intervals" -> {"compacted.intervals"}
    [] OTHER -> {}

\* The allocation behind a view of the current call: row_counts is workspace
\* buffer 0, the input arrays are the caller's, every other view was
\* constructed in this call.
alloc_of(view) ==
  IF view = "row_counts" THEN ws_alloc[0]
  ELSE IF allocation(0, view) \in InputAllocs THEN allocation(0, view)
  ELSE allocation(call, view)

\* The locals of intersect_meshes at entry, nothing dispatched or returned.
AtEntry ==
  /\ pc = "IDLE"
  /\ dispatched = <<>>
  /\ small_is_a = FALSE
  /\ flags = EmptyView
  /\ tmp_idx_a = EmptyView
  /\ tmp_idx_b = EmptyView
  /\ positions = EmptyView
  /\ num_rows_out = 0
  /\ out_rows = EmptyView
  /\ out_idx_a = EmptyView
  /\ out_idx_b = EmptyView
  /\ out = EmptyMesh
  /\ has_intervals = EmptyView
  /\ new_positions = EmptyView
  /\ final_num_rows = 0
  /\ compacted = EmptyMesh
  /\ result = EmptyMesh
  /\ program_order = <<>>
  /\ fill_threads = EmptyView
  /\ result_alloc = NoArrays

\* The first call on the workspace: the caller holds no earlier result.
FirstCall ==
  /\ call = 1
  /\ held = <<>>

\* A workspace before its first use: every buffer empty, none allocated.
FreshWorkspace ==
  /\ size_t_bufs_ = NewWorkspace
  /\ ws_alloc = NoWsAllocs

\* No mesh_to call is under way.
NoTransfer ==
  /\ xfer_pc = "none"
  /\ xfer_src = EmptyMesh
  /\ host = EmptyMesh
  /\ device = EmptyMesh

\* No direct call of the merge is under way.
NoMerge ==
  /\ merge_pc = "none"
  /\ merge_in = <<>>
  /\ merge_out = <<>>
  /\ merge_cur = <<>>

\* No direct call of find_row_by_yz or of get_size_t_buf was made.
NoDirectCall ==
  /\ search = <<>>
  /\ requests = <<>>

Init ==
  /\ \E pair \in ValidInputs : A = pair[1] /\ B = pair[2]
  /\ FreshWorkspace
  /\ FirstCall
  /\ NoDirectCall
  /\ AtEntry
  /\ NoTransfer
  /\ NoMerge

\* Entry: the empty-input guard, the choice of the smaller side and the
\* allocation of the row-matching scratch views.
Start ==
  /\ pc = "IDLE"
  /\ IF empty_input(A, B)
     THEN /\ result' = EmptyMesh
          /\ result_alloc' = NoArrays
          /\ pc' = "DONE_EMPTY"
          /\ UNCHANGED <<small_is_a, flags, tmp_idx_a, tmp_idx_b, positions>>
     ELSE LET sia == choose_small_is_a(A, B)
              n == n_small_of(A, B, sia)
          IN  /\ small_is_a' = sia
              /\ flags' = NewView(n, 0)
              /\ tmp_idx_a' = NewView(n, 0)
              /\ tmp_idx_b' = NewView(n, 0)
              /\ positions' = NewView(n, 0)
          /\ pc' = "row_map"
          /\ UNCHANGED <<result, result_alloc>>
  /\ UNCHANGED <<transfer_vars, merge_vars, direct_vars, call, fill_threads>>
  /\ UNCHANGED <<A, B, size_t_bufs_, dispatched, num_rows_out, out_rows, out_idx_a,
                 out_idx_b, out, has_intervals, new_positions, final_num_rows,
                 compacted, program_order, ws_alloc, held>>

\* Step 1: parallel_for "intersection_row_map", then fence.
RowMap ==
  /\ pc = "row_map"
  /\ LET m == intersection_row_map(rows_small, rows_big, n_small, n_big, small_is_a)
     IN  /\ flags' = m.flags
         /\ tmp_idx_a' = m.tmp_idx_a
         /\ tmp_idx_b' = m.tmp_idx_b
  /\ dispatched' = Append(dispatched, "intersection_row_map")
  /\ program_order' = fence(dispatch(program_order, "intersection_row_map"))
  /\ pc' = "row_scan"
  /\ UNCHANGED <<transfer_vars, merge_vars, direct_vars, call, fill_threads>>
  /\ UNCHANGED <<A, B, size_t_bufs_, small_is_a, positions, num_rows_out, out_rows,
                 out_idx_a, out_idx_b, out, has_intervals, new_positions,
                 final_num_rows, compacted, result, ws_alloc, result_alloc, held>>

\* Step 2: parallel_scan "intersection_row_scan", fence, read of R, and the
\* early return when no row matched.
RowScan ==
  /\ pc = "row_scan"
  /\ LET sc == parallel_scan(flags, n_small)
     IN  /\ positions' = sc.positions
         /\ num_rows_out' = sc.total
         /\ IF sc.total = 0
            THEN result' = EmptyMesh /\ result_alloc' = NoArrays /\ pc' = "DONE_EMPTY"
            ELSE pc' = "row_compact" /\ UNCHANGED <<result, result_alloc>>
  /\ dispatched' = Append(dispatched, "intersection_row_scan")
  /\ program_order' =
       deep_copy(fence(dispatch(program_order, "intersection_row_scan")),
                 "num_rows_out_host", "num_rows_out_view")
  /\ UNCHANGED <<transfer_vars, merge_vars, direct_vars, call, fill_threads>>
  /\ UNCHANGED <<A, B, size_t_bufs_, small_is_a, flags, tmp_idx_a, tmp_idx_b,
                 out_rows, out_idx_a, out_idx_b, out, has_intervals, new_positions,
                 final_num_rows, compacted, ws_alloc, held>>

\* Steps 3-4: allocation of the packed arrays, parallel_for
\* "intersection_row_compact", fence, allocation of the output mesh for the
\* worst case, copy of the row keys, and row_counts taken from the workspace.
RowCompact ==
  /\ pc = "row_compact"
  /\ out_rows' = scatter(flags, positions, rows_small, n_small,
                         NewView(num_rows_out, ZeroRowKey))
  /\ out_idx_a' = scatter(flags, positions, tmp_idx_a, n_small,
                          NewView(num_rows_out, 0))
  /\ out_idx_b' = scatter(flags, positions, tmp_idx_b, n_small,
                          NewView(num_rows_out, 0))
  /\ out' = [allocate_mesh_device(num_rows_out, A.num_intervals + B.num_intervals)
               EXCEPT !.row_keys = out_rows']
  /\ size_t_bufs_' = get_size_t_buf(size_t_bufs_, 0, num_rows_out)
  /\ ws_alloc' = get_size_t_buf_alloc(ws_alloc, size_t_bufs_, 0, num_rows_out, call)
  /\ dispatched' = Append(dispatched, "intersection_row_compact")
  /\ program_order' =
       deep_copy(fence(dispatch(program_order, "intersection_row_compact")),
                 "out.row_keys", "out_rows")
  /\ pc' = "count"
  /\ UNCHANGED <<transfer_vars, merge_vars, direct_vars, call, fill_threads>>
  /\ UNCHANGED <<A, B, small_is_a, flags, tmp_idx_a, tmp_idx_b, positions,
                 num_rows_out, has_intervals, new_positions, final_num_rows,
                 compacted, result, result_alloc, held>>

\* COUNT phase: parallel_for "intersection_count", then fence.
Count ==
  /\ pc = "count"
  /\ size_t_bufs_' =
       [size_t_bufs_ EXCEPT
          ![0] = intersection_count(out_idx_a, out_idx_b, A, B, num_rows_out,
                                    row_counts)]
  /\ held' = held_after_write(alloc_of("row_counts"), size_t_bufs_'[0])
  /\ dispatched' = Append(dispatched, "intersection_count")
  /\ program_order' = fence(dispatch(program_order, "intersection_count"))
  /\ pc' = "scan"
  /\ UNCHANGED <<transfer_vars, merge_vars, direct_vars, call, fill_threads>>
  /\ UNCHANGED <<A, B, small_is_a, flags, tmp_idx_a, tmp_idx_b, positions,
                 num_rows_out, out_rows, out_idx_a, out_idx_b, out, has_intervals,
                 new_positions, final_num_rows, compacted, result, ws_alloc,
                 result_alloc>>

\* Variant: the SCAN phase goes on to the FILL phase whatever the total is.
ScanWithoutEarlyReturn ==
  /\ pc = "scan"
  /\ LET sc == intersection_scan(row_counts, num_rows_out, out.row_ptr)
     IN  /\ out' = [out EXCEPT !.row_ptr = sc.row_ptr,
                               !.num_intervals = sc.total,
                               !.num_rows = num_rows_out]
         /\ pc' = "fill"
         /\ UNCHANGED <<result, result_alloc>>
  /\ dispatched' = Append(dispatched, "intersection_scan")
  /\ program_order' =
       deep_copy(fence(dispatch(program_order, "intersection_scan")),
                 "num_intervals_host", "total_view")
  /\ UNCHANGED <<transfer_vars, merge_vars, direct_vars, call, fill_threads>>
  /\ UNCHANGED <<A, B, size_t_bufs_, small_is_a, flags, tmp_idx_a, tmp_idx_b,
                 positions, num_rows_out, out_rows, out_idx_a, out_idx_b,
                 has_intervals, new_positions, final_num_rows, compacted, ws_alloc,
                 held>>

\* SCAN phase: parallel_scan "intersection_scan", fence, read of the total,
\* and the early return when no interval was counted.
Scan ==
  /\ pc = "scan"
  /\ LET sc == intersection_scan(row_counts, num_rows_out, out.row_ptr)
     IN  /\ out' = [out EXCEPT !.row_ptr = sc.row_ptr,
                               !.num_intervals = sc.total,
                               !.num_rows = num_rows_out]
         /\ IF sc.total = 0
            THEN result' = EmptyMesh /\ result_alloc' = NoArrays /\ pc' = "DONE_EMPTY"
            ELSE pc' = "fill" /\ UNCHANGED <<result, result_alloc>>
  /\ dispatched' = Append(dispatched, "intersection_scan")
  /\ program_order' =
       deep_copy(fence(dispatch(program_order, "intersection_scan")),
                 "num_intervals_host", "total_view")
  /\ UNCHANGED <<transfer_vars, merge_vars, direct_vars, call, fill_threads>>
  /\ UNCHANGED <<A, B, size_t_bufs_, small_is_a, flags, tmp_idx_a, tmp_idx_b,
                 positions, num_rows_out, out_rows, out_idx_a, out_idx_b,
                 has_intervals, new_positions, final_num_rows, compacted, ws_alloc,
                 held>>

\* Variant: the fill kernel also writes its intervals through A.intervals.
FillThroughInput ==
  /\ pc = "fill"
  /\ LET ivs == intersection_fill(num_rows_out, out_idx_a, out_idx_b, A, B,
                                   out.row_ptr, out.intervals)
     IN  /\ out' = [out EXCEPT !.intervals = ivs]
         /\ A' = [A EXCEPT !.intervals = [i \in DOMAIN A.intervals |-> ivs[i]]]
  /\ dispatched' = Append(dispatched, "intersection_fill")
  /\ program_order' = fence(dispatch(program_order, "intersection_fill"))
  /\ pc' = "mark_rows"
  /\ UNCHANGED <<transfer_vars, merge_vars, direct_vars, call, fill_threads>>
  /\ UNCHANGED <<B, size_t_bufs_, small_is_a, flags, tmp_idx_a, tmp_idx_b,
                 positions, num_rows_out, out_rows, out_idx_a, out_idx_b,
                 has_intervals, new_positions, final_num_rows, compacted, result,
                 ws_alloc, result_alloc, held>>

\* FILL phase: parallel_for "intersection_fill", then fence.
Fill ==
  /\ pc = "fill"
  /\ out' = [out EXCEPT !.intervals =
               intersection_fill(num_rows_out, out_idx_a, out_idx_b, A, B,
                                 out.row_ptr, out.intervals)]
  /\ dispatched' = Append(dispatched, "intersection_fill")
  /\ program_order' = fence(dispatch(program_order, "intersection_fill"))
  /\ pc' = "mark_rows"
  /\ UNCHANGED <<transfer_vars, merge_vars, direct_vars, call, fill_threads>>
  /\ UNCHANGED <<A, B, size_t_bufs_, small_is_a, flags, tmp_idx_a, tmp_idx_b,
                 positions, num_rows_out, out_rows, out_idx_a, out_idx_b,
                 has_intervals, new_positions, final_num_rows, compacted, result,
                 ws_alloc, result_alloc, held>>

\* COMPACT phase, marking: parallel_for "intersection_mark_rows", then fence.
MarkRows ==
  /\ pc = "mark_rows"
  /\ has_intervals' = intersection_mark_rows(out.row_ptr, num_rows_out)
  /\ dispatched' = Append(dispatched, "intersection_mark_rows")
  /\ program_order' = fence(dispatch(program_order, "intersection_mark_rows"))
  /\ pc' = "compact_scan"
  /\ UNCHANGED <<transfer_vars, merge_vars, direct_vars, call, fill_threads>>
  /\ UNCHANGED <<A, B, size_t_bufs_, small_is_a, flags, tmp_idx_a, tmp_idx_b,
                 positions, num_rows_out, out_rows, out_idx_a, out_idx_b, out,
                 new_positions, final_num_rows, compacted, result, ws_alloc,
                 result_alloc, held>>

\* COMPACT phase, positions: parallel_scan "intersection_compact_scan", fence,
\* read of R', and the direct return of the intermediate mesh when R' = R.
CompactScan ==
  /\ pc = "compact_scan"
  /\ LET sc == parallel_scan(has_intervals, num_rows_out)
     IN  /\ new_positions' = sc.positions
         /\ final_num_rows' = sc.total
         /\ IF sc.total = num_rows_out
            THEN /\ result' = out
                 /\ result_alloc' = mesh_allocs(call, "out", num_rows_out,
                                                A.num_intervals + B.num_intervals)
                 /\ pc' = "DONE"
            ELSE pc' = "compact_copy" /\ UNCHANGED <<result, result_alloc>>
  /\ dispatched' = Append(dispatched, "intersection_compact_scan")
  /\ program_order' =
       deep_copy(fence(dispatch(program_order, "intersection_compact_scan")),
                 "final_num_rows", "final_num_rows_view")
  /\ UNCHANGED <<transfer_vars, merge_vars, direct_vars, call, fill_threads>>
  /\ UNCHANGED <<A, B, size_t_bufs_, small_is_a, flags, tmp_idx_a, tmp_idx_b,
                 positions, num_rows_out, out_rows, out_idx_a, out_idx_b, out,
                 has_intervals, compacted, ws_alloc, held>>

\* COMPACT phase, copy: allocation of the compacted mesh, the three copy
\* kernels, fence, and the return of the compacted mesh.
CompactCopy ==
  /\ pc = "compact_copy"
  /\ LET fresh == allocate_mesh_device(final_num_rows, out.num_intervals)
         c == [row_keys |-> scatter(has_intervals, new_positions, out.row_keys,
                                    num_rows_out, fresh.row_keys),
               row_ptr |-> intersection_compact_row_ptr(
                             has_intervals, out.row_ptr, num_rows_out,
                             final_num_rows, fresh.row_ptr),
               intervals |-> intersection_compact_intervals(
                               out.intervals, out.num_intervals, fresh.intervals),
               num_rows |-> final_num_rows,
               num_intervals |-> out.num_intervals]
     IN  compacted' = c /\ result' = c
  /\ result_alloc' = mesh_allocs(call, "compacted", final_num_rows, out.num_intervals)
  /\ dispatched' = dispatched \o <<"intersection_compact_rows",
                                   "intersection_compact_row_ptr",
                                   "intersection_compact_intervals">>
  /\ program_order' =
       fence(dispatch(dispatch(dispatch(program_order,
                                        "intersection_compact_rows"),
                               "intersection_compact_row_ptr"),
                      "intersection_compact_intervals"))
  /\ pc' = "DONE"
  /\ UNCHANGED <<transfer_vars, merge_vars, direct_vars, call, fill_threads>>
  /\ UNCHANGED <<A, B, size_t_bufs_, small_is_a, flags, tmp_idx_a, tmp_idx_b,
                 positions, num_rows_out, out_rows, out_idx_a, out_idx_b, out,
                 has_intervals, new_positions, final_num_rows, ws_alloc, held>>

Next ==
  \/ Start
  \/ RowMap
  \/ RowScan
  \/ RowCompact
  \/ Count
  \/ Scan
  \/ Fill
  \/ MarkRows
  \/ CompactScan
  \/ CompactCopy

Spec == Init /\ [][Next]_vars

Returned == pc \in {"DONE", "DONE_EMPTY"}

----------------------------------------------------------------------------
(* intersect_meshes as a function of its two arguments: the composition of *)
(* the kernels above along the control flow of the function, with a fresh  *)
(* workspace.  It gives the value of a second call on other arguments.     *)

intersect_meshes(Ma, Mb) ==
  IF empty_input(Ma, Mb) THEN EmptyMesh
  ELSE
    LET sia == choose_small_is_a(Ma, Mb)
        ns == n_small_of(Ma, Mb, sia)
        rs == rows_small_of(Ma, Mb, sia)
        m == intersection_row_map(rs, rows_big_of(Ma, Mb, sia), ns,
                                  n_big_of(Ma, Mb, sia), sia)
        rsc == parallel_scan(m.flags, ns)
        R == rsc.total
    IN
    IF R = 0 THEN EmptyMesh
    ELSE
      LET keys == scatter(m.flags, rsc.positions, rs, ns, NewView(R, ZeroRowKey))
          ia == scatter(m.flags, rsc.positions, m.tmp_idx_a, ns, NewView(R, 0))
          ib == scatter(m.flags, rsc.positions, m.tmp_idx_b, ns, NewView(R, 0))
          o == allocate_mesh_device(R, Ma.num_intervals + Mb.num_intervals)
          counts == intersection_count(ia, ib, Ma, Mb, R,
                                       get_size_t_buf(NewWorkspace, 0, R)[0])
          sc == intersection_scan(counts, R, o.row_ptr)
      IN
      IF sc.total = 0 THEN EmptyMesh
      ELSE
        LET ivs == intersection_fill(R, ia, ib, Ma, Mb, sc.row_ptr, o.intervals)
            has == intersection_mark_rows(sc.row_ptr, R)
            csc == parallel_scan(has, R)
            fresh == allocate_mesh_device(csc.total, sc.total)
        IN
        IF csc.total = R
        THEN [row_keys |-> keys, row_ptr |-> sc.row_ptr, intervals |-> ivs,
              num_rows |-> R, num_intervals |-> sc.total]
        ELSE [row_keys |-> scatter(has, csc.positions, keys, R, fresh.row_keys),
              row_ptr |-> intersection_compact_row_ptr(has, sc.row_ptr, R,
                                                       csc.total, fresh.row_ptr),
              intervals |-> intersection_compact_intervals(ivs, sc.total,
                                                           fresh.intervals),
              num_rows |-> csc.total, num_intervals |-> sc.total]

\* The call modelled step by step returns the value of the composition.
StepwiseIsComposition == Returned => result = intersect_meshes(A, B)

----------------------------------------------------------------------------
(* A direct call of detail::row_intersection_impl on two row subranges, as  *)
(* the COUNT and FILL kernels make it.                                      *)

MergeCoords == 0 .. MaxMergeCoord

MergeInterval ==
  { iv \in [begin : MergeCoords, end : MergeCoords] : iv.begin < iv.end }

\* The interval runs of n intervals that satisfy I3: non-empty, sorted,
\* pairwise non-overlapping (touching allowed).
RECURSIVE RunsOfLength(_)
RunsOfLength(n) ==
  IF n = 0 THEN {EmptyView}
  ELSE UNION { { [i \in 0 .. n - 1 |-> IF i < n - 1 THEN run[i] ELSE iv] :
                   iv \in { v \in MergeInterval :
                             n > 1 => run[n - 2].end <= v.begin } } :
               run \in RunsOfLength(n - 1) }

MergeRuns == UNION { RunsOfLength(n) : n \in 0 .. MaxMergeCoord }

\* An interval of a neighbouring row of the same CSR interval array.
NeighbourInterval == [begin |-> 0, end |-> MaxMergeCoord]

\* A CSR interval array that holds run as the subrange lead .. lead + n - 1,
\* between intervals of neighbouring rows.
EmbedRun(run, lead) ==
  [i \in 0 .. lead + Extent(run) |->
     IF lead <= i /\ i < lead + Extent(run) THEN run[i - lead]
     ELSE NeighbourInterval]

\* The argument lists of the call: mode, two embedded runs, and an output
\* view (zero-initialised) with room from out_offset on.
MergeCalls ==
  { [CountOnly |-> mode,
     intervals_a |-> EmbedRun(ra, la), begin_a |-> la, end_a |-> la + Extent(ra),
     intervals_b |-> EmbedRun(rb, lb), begin_b |-> lb, end_b |-> lb + Extent(rb),
     intervals_out |-> NewView(off + Extent(ra) + Extent(rb) + 1, ZeroInterval),
     out_offset |-> off] :
      mode \in BOOLEAN, ra \in MergeRuns, rb \in MergeRuns,
      la \in 0 .. 1, lb \in 0 .. 1, off \in 0 .. 1 }

InitMerge ==
  /\ A = EmptyMesh
  /\ B = EmptyMesh
  /\ FreshWorkspace
  /\ FirstCall
  /\ NoDirectCall
  /\ AtEntry
  /\ NoTransfer
  /\ merge_pc = "call"
  /\ merge_in \in MergeCalls
  /\ merge_out = <<>>
  /\ merge_cur = <<>>

\* The call runs to its return statement.
RowIntersection ==
  /\ merge_pc = "call"
  /\ merge_out' =
       row_intersection_impl(merge_in.CountOnly,
                             merge_in.intervals_a, merge_in.begin_a, merge_in.end_a,
                             merge_in.intervals_b, merge_in.begin_b, merge_in.end_b,
                             merge_in.intervals_out, merge_in.out_offset)
  /\ merge_pc' = "returned"
  /\ UNCHANGED <<engine_vars, transfer_vars, direct_vars, merge_in, merge_cur>>

NextMerge == RowIntersection

SpecMerge == InitMerge /\ [][NextMerge]_vars

----------------------------------------------------------------------------
(* intersection.hpp: mesh_to, the copy of a mesh into another memory space *)

\* Kokkos::create_mirror_view_and_copy(ToSpace{}, view): a view of the same
\* extent in the destination space, filled element by element from view.
create_mirror_view_and_copy(view) == [i \in 0 .. Extent(view) - 1 |-> view[i]]

\* Variant: the mirror views are allocated but never filled.
mesh_to_without_copy(src) ==
  IF src.num_rows = 0 THEN EmptyMesh
  ELSE [row_keys |-> NewView(Extent(src.row_keys), ZeroRowKey),
        row_ptr |-> NewView(Extent(src.row_ptr), 0),
        intervals |-> NewView(Extent(src.intervals), ZeroInterval),
        num_rows |-> src.num_rows, num_intervals |-> src.num_intervals]

mesh_to(src) ==
  IF src.num_rows = 0 THEN EmptyMesh
  ELSE [row_keys |-> create_mirror_view_and_copy(src.row_keys),
        row_ptr |-> create_mirror_view_and_copy(src.row_ptr),
        intervals |-> create_mirror_view_and_copy(src.intervals),
        num_rows |-> src.num_rows, num_intervals |-> src.num_intervals]

\* A mesh whose interval view was allocated for the worst case, as the
\* intermediate mesh of the engine is: one element more than num_intervals.
WithSpareCapacity(M) ==
  [M EXCEPT !.intervals =
     [i \in 0 .. Extent(M.intervals) |->
        IF i < Extent(M.intervals) THEN M.intervals[i] ELSE ZeroInterval]]

\* The meshes handed to mesh_to: the meshes make_mesh_device builds, and the
\* same with spare interval capacity.
TransferSources ==
  ValidMeshes \cup { WithSpareCapacity(M) : M \in ValidMeshes \ {EmptyMesh} }

InitTransfer ==
  /\ A = EmptyMesh
  /\ B = EmptyMesh
  /\ FreshWorkspace
  /\ FirstCall
  /\ NoDirectCall
  /\ AtEntry
  /\ xfer_pc = "src"
  /\ xfer_src \in TransferSources
  /\ host = EmptyMesh
  /\ device = EmptyMesh
  /\ NoMerge

\* mesh_to<HostSpace>(xfer_src)
ToHost ==
  /\ xfer_pc = "src"
  /\ host' = mesh_to(xfer_src)
  /\ xfer_pc' = "host"
  /\ UNCHANGED <<engine_vars, merge_vars, direct_vars, xfer_src, device>>

\* mesh_to<DeviceSpace>(host)
ToDevice ==
  /\ xfer_pc = "host"
  /\ device' = mesh_to(host)
  /\ xfer_pc' = "device"
  /\ UNCHANGED <<engine_vars, merge_vars, direct_vars, xfer_src, host>>

NextTransfer ==
  \/ ToHost
  \/ ToDevice

SpecTransfer == InitTransfer /\ [][NextTransfer]_vars

\* run_intersection_to_host of the test suite: the mesh returned by
\* intersect_meshes is handed to mesh_to<HostSpace>.
ResultToHost ==
  /\ Returned
  /\ xfer_pc = "none"
  /\ xfer_src' = result
  /\ host' = mesh_to(result)
  /\ xfer_pc' = "host"
  /\ UNCHANGED <<engine_vars, merge_vars, direct_vars, device>>

NextToHost ==
  \/ Next
  \/ ResultToHost

SpecToHost == Init /\ [][NextToHost]_vars

----------------------------------------------------------------------------
(* Calls on meshes whose coordinates sit at the ends of the range of Coord *)
(* (int32_t), as in the boundary-value tests.                              *)

INT32_MAX == 2147483647

INT32_MIN == -INT32_MAX - 1

\* Order-preserving placement of the X universe 0, 1, 2 at INT32_MIN,
\* INT32_MAX - 1, INT32_MAX, and of the y, z universe 0, 1 at the two ends.
ExtremeX(x) == IF x = 0 THEN INT32_MIN ELSE INT32_MAX - 2 + x

ExtremeYZ(c) == IF c = 0 THEN INT32_MIN ELSE INT32_MAX

AtExtremes(M) ==
  [M EXCEPT
     !.row_keys = [i \in DOMAIN M.row_keys |->
                     [y |-> ExtremeYZ(M.row_keys[i].y),
                      z |-> ExtremeYZ(M.row_keys[i].z)]],
     !.intervals = [i \in DOMAIN M.intervals |->
                      [begin |-> ExtremeX(M.intervals[i].begin),
                       end |-> ExtremeX(M.intervals[i].end)]]]

InitExtreme ==
  /\ \E pair \in ValidInputs :
       A = AtExtremes(pair[1]) /\ B = AtExtremes(pair[2])
  /\ FreshWorkspace
  /\ FirstCall
  /\ NoDirectCall
  /\ AtEntry
  /\ NoTransfer
  /\ NoMerge

SpecExtreme == InitExtreme /\ [][Next]_vars

----------------------------------------------------------------------------
(* Calls on an input with empty rows, as the tests FirstRowHasNoIntervals   *)
(* and LastRowHasNoIntervals make them: B lists the row keys of A, and some *)
(* of its rows have row_ptr[r] = row_ptr[r+1].                              *)

\* verify_csr_invariants of the test suite.
verify_csr_invariants(mesh) ==
  /\ \A i \in 0 .. mesh.num_rows - 1 : mesh.row_ptr[i] <= mesh.row_ptr[i + 1]
  /\ \A i \in 1 .. mesh.num_rows - 1 :
       LET prev == mesh.row_keys[i - 1]
           curr == mesh.row_keys[i]
       IN  ~(prev.y > curr.y \/ (prev.y = curr.y /\ prev.z > curr.z))
  /\ \A row \in 0 .. mesh.num_rows - 1 :
       \A i \in mesh.row_ptr[row] .. mesh.row_ptr[row + 1] - 1 :
         /\ mesh.intervals[i].begin < mesh.intervals[i].end
         /\ i > mesh.row_ptr[row] =>
              mesh.intervals[i - 1].end <= mesh.intervals[i].begin

\* The meshes of ni intervals on the given row keys that satisfy I1-I3:
\* row_ptr starts at 0, ends at ni and never decreases, so rows may be empty.
MeshesOnKeys(keys, ni) ==
  LET nr == Extent(keys)
  IN  { M \in { [row_keys |-> keys, row_ptr |-> rp, intervals |-> iv,
                 num_rows |-> nr, num_intervals |-> ni] :
                  rp \in { f \in [0 .. nr -> 0 .. ni] :
                             /\ f[0] = 0
                             /\ f[nr] = ni
                             /\ \A r \in 0 .. nr - 1 : f[r] <= f[r + 1] },
                  iv \in [0 .. ni - 1 -> Interval] } :
          I3(M) }

InitEmptyRows ==
  /\ \E Ma \in ValidMeshes \ {EmptyMesh} :
       \E ni \in 0 .. MaxTotalIntervals - Ma.num_intervals :
         \E Mb \in MeshesOnKeys(Ma.row_keys, ni) :
           A = Ma /\ B = Mb
  /\ FreshWorkspace
  /\ FirstCall
  /\ NoDirectCall
  /\ AtEntry
  /\ NoTransfer
  /\ NoMerge

SpecEmptyRows == InitEmptyRows /\ [][Next]_vars

----------------------------------------------------------------------------
(* Calls of intersect_meshes(A, B, ws) with a workspace that earlier calls *)
(* have used: buffer 0 has some capacity and holds their row counts.       *)

\* A value left in a buffer by an earlier call.
StaleCount == 5

\* Workspaces whose buffer 0 has capacity 0, 1, 2 or 3 and stale contents.
StaleWorkspaces ==
  { [NewWorkspace EXCEPT ![0] = [i \in 0 .. c - 1 |-> StaleCount]] : c \in 0 .. 3 }

InitWorkspace ==
  /\ \E pair \in ValidInputs :
       /\ pair[1].num_intervals + pair[2].num_intervals <= MaxTotalIntervals - 1
       /\ A = pair[1]
       /\ B = pair[2]
  /\ size_t_bufs_ \in StaleWorkspaces
  /\ ws_alloc = [NoWsAllocs EXCEPT
                   ![0] = IF Extent(size_t_bufs_[0]) > 0
                          THEN allocation(0, ws_label(0)) ELSE NullAlloc]
  /\ FirstCall
  /\ NoDirectCall
  /\ AtEntry
  /\ NoTransfer
  /\ NoMerge

SpecWorkspace == InitWorkspace /\ [][Next]_vars

----------------------------------------------------------------------------
(* Calls on an input whose interval vector is longer than its row_ptr      *)
(* total, as make_mesh_device builds it in FirstRowHasNoIntervals: the     *)
(* vector has one more element and num_intervals is the vector's size.     *)

\* The interval that covers the whole X universe.
WidestInterval ==
  CHOOSE w \in Interval : \A iv \in Interval : w.begin <= iv.begin /\ iv.end <= w.end

\* make_mesh_device on the vectors of M with sp appended to the intervals.
WithSpareInterval(M, sp) ==
  IF M.num_rows = 0 THEN M
  ELSE [M EXCEPT
          !.intervals = [i \in 0 .. M.num_intervals |->
                           IF i < M.num_intervals THEN M.intervals[i] ELSE sp],
          !.num_intervals = M.num_intervals + 1]

\* The inputs built from two valid meshes: a spare real interval on A, or on
\* B, or a spare Interval{} on both.
SpareInputs(Ma, Mb) ==
  { <<WithSpareInterval(Ma, WidestInterval), Mb>>,
    <<Ma, WithSpareInterval(Mb, WidestInterval)>>,
    <<WithSpareInterval(Ma, ZeroInterval), WithSpareInterval(Mb, ZeroInterval)>> }

InitSpare ==
  /\ \E pair \in ValidInputs :
       /\ pair[1].num_intervals + pair[2].num_intervals <= MaxTotalIntervals - 1
       /\ \E inputs \in SpareInputs(pair[1], pair[2]) :
            A = inputs[1] /\ B = inputs[2]
  /\ FreshWorkspace
  /\ FirstCall
  /\ NoDirectCall
  /\ AtEntry
  /\ NoTransfer
  /\ NoMerge

SpecSpare == InitSpare /\ [][Next]_vars

----------------------------------------------------------------------------
(* The loops executed one iteration at a time: the while loop of            *)
(* row_intersection_impl, in a direct call and in the iterations of the     *)
(* "intersection_fill" kernel, which run concurrently, and the while loop   *)
(* of find_row_by_yz.                                                       *)

\* Variant: when both intervals end at the same coordinate, no cursor moves.
merge_iteration_without_else(CountOnly, intervals_a, ia, intervals_b, ib, intervals_out, out_offset, count) ==
  LET a == intervals_a[ia]
      b == intervals_b[ib]
      start == overlap_start(a, b)
      end == overlap_end(a, b)
      emit == overlap_nonempty(start, end)
  IN  [ia |-> IF a.end < b.end THEN ia + 1 ELSE ia,
       ib |-> IF b.end < a.end THEN ib + 1 ELSE ib,
       count |-> IF emit THEN count + 1 ELSE count,
       out |-> IF emit /\ ~CountOnly
               THEN [intervals_out EXCEPT
                       ![out_offset + count] = [begin |-> start, end |-> end]]
               ELSE intervals_out]

\* One pass through the body of the while loop of row_intersection_impl:
\* the cursors, the count and the output view afterwards.
merge_iteration(CountOnly, intervals_a, ia, intervals_b, ib, intervals_out, out_offset, count) ==
  LET a == intervals_a[ia]
      b == intervals_b[ib]
      start == overlap_start(a, b)
      end == overlap_end(a, b)
      emit == overlap_nonempty(start, end)
  IN  [ia |-> IF a.end < b.end THEN ia + 1
              ELSE IF b.end < a.end THEN ia ELSE ia + 1,
       ib |-> IF a.end < b.end THEN ib
              ELSE IF b.end < a.end THEN ib + 1 ELSE ib + 1,
       count |-> IF emit THEN count + 1 ELSE count,
       out |-> IF emit /\ ~CountOnly
               THEN [intervals_out EXCEPT
                       ![out_offset + count] = [begin |-> start, end |-> end]]
               ELSE intervals_out]

\* The direct calls executed step by step: both modes, A's run after a
\* neighbouring row or at the start of its view.
MergeStepCalls ==
  { mc \in MergeCalls : mc.begin_b = 0 /\ mc.out_offset = 0 }

\* ia = begin_a; ib = begin_b; count = 0;
MergeEnter ==
  /\ merge_pc = "call"
  /\ merge_cur' = [ia |-> merge_in.begin_a, ib |-> merge_in.begin_b, iterations |-> 0]
  /\ merge_out' = [count |-> 0, out |-> merge_in.intervals_out]
  /\ merge_pc' = "loop"
  /\ UNCHANGED <<engine_vars, transfer_vars, direct_vars, merge_in>>

\* One iteration of while (ia < end_a && ib < end_b).
MergeIteration ==
  /\ merge_pc = "loop"
  /\ merge_cur.ia < merge_in.end_a /\ merge_cur.ib < merge_in.end_b
  /\ LET it == merge_iteration(merge_in.CountOnly,
                               merge_in.intervals_a, merge_cur.ia,
                               merge_in.intervals_b, merge_cur.ib,
                               merge_out.out, merge_in.out_offset, merge_out.count)
     IN  /\ merge_cur' = [ia |-> it.ia, ib |-> it.ib,
                          iterations |-> merge_cur.iterations + 1]
         /\ merge_out' = [count |-> it.count, out |-> it.out]
  /\ UNCHANGED <<engine_vars, transfer_vars, direct_vars, merge_in, merge_pc>>

\* The loop condition fails: return count.
MergeReturn ==
  /\ merge_pc = "loop"
  /\ ~(merge_cur.ia < merge_in.end_a /\ merge_cur.ib < merge_in.end_b)
  /\ merge_pc' = "returned"
  /\ UNCHANGED <<engine_vars, transfer_vars, direct_vars, merge_in, merge_out,
                 merge_cur>>

\* The row-key views the row search runs on: sorted, of every length.
SortedRowKeys == { M.row_keys : M \in ValidMeshes }

\* The direct calls find_row_by_yz(rows, num_rows, y, z), at the top of the
\* while loop: lo = 0, hi = num_rows.
SearchCalls ==
  { [rows |-> rows, num_rows |-> Extent(rows), y |-> k.y, z |-> k.z,
     lo |-> 0, hi |-> Extent(rows), width_before |-> Extent(rows), steps |-> 0,
     at |-> "loop", ret |-> -1] :
      rows \in SortedRowKeys, k \in RowKey }

\* One iteration of while (lo < hi).
SearchIteration ==
  /\ search # <<>>
  /\ search.at = "loop"
  /\ search.lo < search.hi
  /\ LET mid == search.lo + (search.hi - search.lo) \div 2
         key == search.rows[mid]
     IN  search' =
           [search EXCEPT
              !.lo = IF key.y < search.y \/ (key.y = search.y /\ key.z < search.z)
                     THEN mid + 1 ELSE @,
              !.hi = IF key.y < search.y \/ (key.y = search.y /\ key.z < search.z)
                     THEN @ ELSE mid,
              !.width_before = search.hi - search.lo,
              !.steps = @ + 1]
  /\ UNCHANGED <<engine_vars, transfer_vars, merge_vars, requests>>

\* The loop condition fails: the final test of rows(lo) and the return.
SearchReturn ==
  /\ search # <<>>
  /\ search.at = "loop"
  /\ ~(search.lo < search.hi)
  /\ search' =
       [search EXCEPT
          !.at = "returned",
          !.ret = IF /\ search.lo < search.num_rows
                     /\ search.rows[search.lo].y = search.y
                     /\ search.rows[search.lo].z = search.z
                  THEN search.lo ELSE -1]
  /\ UNCHANGED <<engine_vars, transfer_vars, merge_vars, requests>>

\* Variant: every row is emitted at the offset of the first row.
emit_offset_of_first_row(row_ptr_out, i) == row_ptr_out[0]

\* The out_offset argument of iteration i of the fill kernel: row_ptr_out(i).
emit_offset(row_ptr_out, i) == row_ptr_out[i]

\* parallel_for "intersection_fill" is enqueued: one iteration per matched
\* row, none started.
FillDispatch ==
  /\ pc = "fill"
  /\ fill_threads' = [i \in 0 .. num_rows_out - 1 |->
                        [at |-> "entry", ia |-> 0, ib |-> 0, end_a |-> 0,
                         end_b |-> 0, count |-> 0]]
  /\ dispatched' = Append(dispatched, "intersection_fill")
  /\ program_order' = dispatch(program_order, "intersection_fill")
  /\ pc' = "fill_running"
  /\ UNCHANGED <<transfer_vars, merge_vars, direct_vars, call>>
  /\ UNCHANGED <<A, B, size_t_bufs_, small_is_a, flags, tmp_idx_a, tmp_idx_b,
                 positions, num_rows_out, out_rows, out_idx_a, out_idx_b, out,
                 has_intervals, new_positions, final_num_rows, compacted, result,
                 ws_alloc, result_alloc, held>>

\* Some iteration i of the fill kernel takes one step: from its entry to the
\* loop of the merge (or to its return, for an unmatched or empty row), or
\* one iteration of the merge loop, or the exit from the loop.
FillThreadStep ==
  /\ pc = "fill_running"
  /\ \E i \in DOMAIN fill_threads :
       LET th == fill_threads[i]
       IN  /\ th.at # "exit"
           /\ IF th.at = "entry"
              THEN /\ fill_threads' =
                        [fill_threads EXCEPT ![i] =
                           IF out_idx_a[i] < 0 \/ out_idx_b[i] < 0
                           THEN [th EXCEPT !.at = "exit"]
                           ELSE LET r == extract_row_ranges(out_idx_a[i], out_idx_b[i],
                                                            A.row_ptr, B.row_ptr)
                                IN  IF r.begin_a = r.end_a \/ r.begin_b = r.end_b
                                    THEN [th EXCEPT !.at = "exit"]
                                    ELSE [at |-> "loop", ia |-> r.begin_a,
                                          ib |-> r.begin_b, end_a |-> r.end_a,
                                          end_b |-> r.end_b, count |-> 0]]
                   /\ UNCHANGED out
              ELSE IF th.ia < th.end_a /\ th.ib < th.end_b
              THEN LET it == merge_iteration(FALSE, A.intervals, th.ia,
                                             B.intervals, th.ib, out.intervals,
                                             emit_offset(out.row_ptr, i), th.count)
                   IN  /\ fill_threads' =
                            [fill_threads EXCEPT ![i] =
                               [th EXCEPT !.ia = it.ia, !.ib = it.ib,
                                          !.count = it.count]]
                       /\ out' = [out EXCEPT !.intervals = it.out]
              ELSE /\ fill_threads' = [fill_threads EXCEPT ![i].at = "exit"]
                   /\ UNCHANGED out
  /\ UNCHANGED <<transfer_vars, merge_vars, direct_vars, call>>
  /\ UNCHANGED <<A, B, size_t_bufs_, pc, dispatched, program_order, small_is_a,
                 flags, tmp_idx_a, tmp_idx_b, positions, num_rows_out, out_rows,
                 out_idx_a, out_idx_b, has_intervals, new_positions, final_num_rows,
                 compacted, result, ws_alloc, result_alloc, held>>

\* Kokkos::fence() after the fill kernel: returns when every iteration has.
FillFence ==
  /\ pc = "fill_running"
  /\ \A i \in DOMAIN fill_threads : fill_threads[i].at = "exit"
  /\ fill_threads' = EmptyView
  /\ program_order' = fence(program_order)
  /\ pc' = "mark_rows"
  /\ UNCHANGED <<transfer_vars, merge_vars, direct_vars, call>>
  /\ UNCHANGED <<A, B, size_t_bufs_, dispatched, small_is_a, flags, tmp_idx_a,
                 tmp_idx_b, positions, num_rows_out, out_rows, out_idx_a, out_idx_b,
                 out, has_intervals, new_positions, final_num_rows, compacted,
                 result, ws_alloc, result_alloc, held>>

\* Meshes in the plane z = 0.
Planar(M) == \A r \in 0 .. M.num_rows - 1 : M.row_keys[r].z = 0

PlanarInputs ==
  { pair \in { M \in ValidMeshes : Planar(M) } \X { M \in ValidMeshes : Planar(M) } :
      pair[1].num_intervals + pair[2].num_intervals <= MaxTotalIntervals }

\* A call of intersect_meshes on planar inputs, alone or next to a direct
\* call of row_intersection_impl or of find_row_by_yz.
InitSteps ==
  /\ FreshWorkspace
  /\ FirstCall
  /\ AtEntry
  /\ NoTransfer
  /\ requests = <<>>
  /\ \/ /\ \E pair \in PlanarInputs : A = pair[1] /\ B = pair[2]
        /\ NoMerge
        /\ search = <<>>
     \/ /\ A = EmptyMesh
        /\ B = EmptyMesh
        /\ merge_pc = "call"
        /\ merge_in \in MergeStepCalls
        /\ merge_out = <<>>
        /\ merge_cur = <<>>
        /\ search = <<>>
     \/ /\ A = EmptyMesh
        /\ B = EmptyMesh
        /\ NoMerge
        /\ search \in SearchCalls

NextSteps ==
  \/ Start
  \/ RowMap
  \/ RowScan
  \/ RowCompact
  \/ Count
  \/ Scan
  \/ FillDispatch
  \/ FillThreadStep
  \/ FillFence
  \/ MarkRows
  \/ CompactScan
  \/ CompactCopy
  \/ MergeEnter
  \/ MergeIteration
  \/ MergeReturn
  \/ SearchIteration
  \/ SearchReturn

SpecSteps == InitSteps /\ [][NextSteps]_vars

----------------------------------------------------------------------------
(* Requests made directly on one IntersectionWorkspace.                    *)

\* Number of requests in a run, and the largest size requested.
MaxRequests == 3
MaxRequestSize == 3

\* ws.get_size_t_buf(idx, size), request number Len(requests) + 1.
GetSizeTBuf ==
  /\ Len(requests) < MaxRequests
  /\ \E idx \in 0 .. NUM_SIZE_T_BUFS - 1 : \E size \in 0 .. MaxRequestSize :
       /\ size_t_bufs_' = get_size_t_buf(size_t_bufs_, idx, size)
       /\ ws_alloc' = get_size_t_buf_alloc(ws_alloc, size_t_bufs_, idx, size,
                                            Len(requests) + 1)
       /\ requests' = Append(requests, [idx |-> idx, size |-> size])
  /\ UNCHANGED <<transfer_vars, merge_vars, search, call, fill_threads>>
  /\ UNCHANGED <<A, B, pc, dispatched, small_is_a, flags, tmp_idx_a, tmp_idx_b,
                 positions, num_rows_out, out_rows, out_idx_a, out_idx_b, out,
                 has_intervals, new_positions, final_num_rows, compacted, result,
                 program_order, result_alloc, held>>

InitWsCalls ==
  /\ A = EmptyMesh
  /\ B = EmptyMesh
  /\ FreshWorkspace
  /\ FirstCall
  /\ NoDirectCall
  /\ AtEntry
  /\ NoTransfer
  /\ NoMerge

NextWsCalls == GetSizeTBuf

SpecWsCalls == InitWsCalls /\ [][NextWsCalls]_vars

----------------------------------------------------------------------------
(* Successive calls intersect_meshes(A, B, ws) on one workspace, the caller *)
(* keeping every mesh returned.                                             *)

\* Number of calls made on the workspace.
MaxCalls == 2

\* Planar meshes with one unit interval per row.
UnitRowMeshes ==
  { M \in ValidMeshes :
      /\ Planar(M)
      /\ M.num_rows >= 1
      /\ M.num_intervals = M.num_rows
      /\ \A i \in 0 .. M.num_intervals - 1 :
           M.intervals[i].end = M.intervals[i].begin + 1 }

\* Inputs of a call: A has both rows, B has one or two.
ReuseInputs ==
  { pair \in UnitRowMeshes \X UnitRowMeshes : pair[1].num_rows = 2 }

\* The caller keeps the returned mesh and calls intersect_meshes again with
\* the same workspace: the locals of the new call are at their entry values,
\* the workspace buffers are as the previous call left them.
CallAgain ==
  /\ Returned
  /\ call < MaxCalls
  /\ held' = Append(held, [mesh |-> result, alloc |-> result_alloc])
  /\ call' = call + 1
  /\ \E pair \in ReuseInputs : A' = pair[1] /\ B' = pair[2]
  /\ pc' = "IDLE"
  /\ dispatched' = <<>>
  /\ small_is_a' = FALSE
  /\ flags' = EmptyView
  /\ tmp_idx_a' = EmptyView
  /\ tmp_idx_b' = EmptyView
  /\ positions' = EmptyView
  /\ num_rows_out' = 0
  /\ out_rows' = EmptyView
  /\ out_idx_a' = EmptyView
  /\ out_idx_b' = EmptyView
  /\ out' = EmptyMesh
  /\ has_intervals' = EmptyView
  /\ new_positions' = EmptyView
  /\ final_num_rows' = 0
  /\ compacted' = EmptyMesh
  /\ result' = EmptyMesh
  /\ program_order' = <<>>
  /\ result_alloc' = NoArrays
  /\ UNCHANGED <<transfer_vars, merge_vars, direct_vars, fill_threads,
                 size_t_bufs_, ws_alloc>>

InitReuse ==
  /\ \E pair \in ReuseInputs : A = pair[1] /\ B = pair[2]
  /\ FreshWorkspace
  /\ FirstCall
  /\ NoDirectCall
  /\ AtEntry
  /\ NoTransfer
  /\ NoMerge

NextReuse ==
  \/ Start
  \/ RowMap
  \/ RowScan
  \/ RowCompact
  \/ Count
  \/ Scan
  \/ Fill
  \/ MarkRows
  \/ CompactScan
  \/ CompactCopy
  \/ CallAgain

SpecReuse == InitReuse /\ [][NextReuse]_vars

----------------------------------------------------------------------------
(* Properties of the returned mesh.  A and B satisfy I1-I4 in every state. *)

KeysOf(M) == { M.row_keys[r] : r \in 0 .. M.num_rows - 1 }

\* X cells of mesh M on the row with key k.
RowX(M, k) == { x \in XCoords : <<x, k.y, k.z>> \in Cells(M) }

\* Keys present in both inputs whose two rows share at least one X cell.
SharedKeys ==
  { k \in KeysOf(A) \cap KeysOf(B) : RowX(A, k) \cap RowX(B, k) # {} }

\* The compacted mesh was returned: some but not all matched rows were kept.
ReturnedCompacted == pc = "DONE" /\ final_num_rows < num_rows_out

\* C1: on every return path the cells of the returned mesh, read through its
\* row_keys, row_ptr and intervals, are exactly the cells in both A and B.
C1_CellwiseIntersection ==
  Returned => Cells(result) = Cells(A) \cap Cells(B)

\* C2: every returned mesh satisfies I2: row_ptr[0] = 0, row_ptr[num_rows] =
\* num_intervals and row_ptr non-decreasing, on the direct and on the
\* compacted return path.
C2_ResultRowPtr == Returned => I2(result)

\* C3: no returned mesh has an empty row (row_ptr[r] < row_ptr[r+1] for every
\* row), and no matched row with an empty X-intersection is among its keys.
C3_NoEmptyRow ==
  Returned =>
    /\ I4(result)
    /\ \A k \in KeysOf(A) \cap KeysOf(B) :
         RowX(A, k) \cap RowX(B, k) = {} => k \notin KeysOf(result)

\* C4: the row keys of the result are exactly the keys present in both inputs
\* whose rows share an X cell; when there is no such key the result is the
\* empty mesh.
C4_ResultKeys ==
  Returned =>
    /\ KeysOf(result) = SharedKeys
    /\ SharedKeys = {} => result.num_rows = 0 /\ result.num_intervals = 0

\* A compacted result, with a key of A that B has only under another z.
C4_Witness ==
  /\ ReturnedCompacted
  /\ \E ka \in KeysOf(A) \ KeysOf(B) :
       \E kb \in KeysOf(B) : kb.y = ka.y /\ kb.z # ka.z

C6_ResultIntervals == Returned => I3(result)

\* A returned row that holds two intervals.
C6_Witness ==
  /\ pc = "DONE"
  /\ \E r \in 0 .. result.num_rows - 1 : result.row_ptr[r] + 2 <= result.row_ptr[r + 1]

\* C7: intersect_meshes(A, A) is structurally equal to A.
C7_Idempotence == (Returned /\ A = B) => meshes_equal(result, A)

\* A mesh with two rows intersected with itself.
C7_Witness == pc = "DONE" /\ A = B /\ A.num_rows = 2

\* C8: intersect_meshes(A, B) and intersect_meshes(B, A) are structurally
\* equal, also when the row counts differ.
C8_Commutativity == Returned => meshes_equal(result, intersect_meshes(B, A))

\* A non-empty result for inputs with different row counts, B the smaller.
C8_Witness ==
  pc = "DONE" /\ A.num_rows > B.num_rows /\ result.num_rows > 0

\* C9: with an input of zero rows the call returns the empty mesh without
\* dispatching any kernel (no binary search runs).
C9_EmptyInputAbsorbs ==
  (A.num_rows = 0 \/ B.num_rows = 0) =>
    /\ dispatched = <<>>
    /\ pc \in {"IDLE", "DONE_EMPTY"}
    /\ Returned => result.num_rows = 0 /\ result.num_intervals = 0

\* The call has returned for an empty A and a non-empty B.
C9_Witness == pc = "DONE_EMPTY" /\ A.num_rows = 0 /\ B.num_rows > 0

\* C10: when every cell of A is a cell of B, the result has exactly the
\* cells of A.
C10_Domination ==
  (Returned /\ Cells(A) \subseteq Cells(B)) => Cells(result) = Cells(A)

\* B covers one interval of A with two touching intervals, which splits it.
C10_Witness ==
  /\ pc = "DONE"
  /\ Cells(A) \subseteq Cells(B)
  /\ result.num_intervals > A.num_intervals

\* C11: mesh_to copies a mesh without changing it: the copy has the same
\* num_rows and num_intervals and element-for-element equal row_keys, row_ptr
\* and intervals, so I1-I4 carry over; the copy of the copy is structurally
\* equal to the original; an empty mesh is copied to an empty mesh.
C11_MeshToCopies ==
  /\ xfer_pc \in {"host", "device"} =>
       /\ host.num_rows = xfer_src.num_rows
       /\ host.num_intervals = xfer_src.num_intervals
       /\ host.row_keys = xfer_src.row_keys
       /\ host.row_ptr = xfer_src.row_ptr
       /\ host.intervals = xfer_src.intervals
       /\ I1(xfer_src) => I1(host)
       /\ I2(xfer_src) => I2(host)
       /\ I3(xfer_src) => I3(host)
       /\ I4(xfer_src) => I4(host)
       /\ (xfer_src.num_rows = 0 /\ xfer_src.num_intervals = 0) =>
            (host.num_rows = 0 /\ host.num_intervals = 0)
  /\ xfer_pc = "device" =>
       /\ meshes_equal(device, xfer_src)
       /\ device.row_keys = host.row_keys
       /\ device.row_ptr = host.row_ptr
       /\ device.intervals = host.intervals

\* A mesh of two rows with spare interval capacity has made the round trip.
C11_Witness ==
  /\ xfer_pc = "device"
  /\ xfer_src.num_rows >= 2
  /\ Extent(xfer_src.intervals) > xfer_src.num_intervals

\* Index pairs (i, j) of the two runs of the merge call.
MergePairs ==
  (merge_in.begin_a .. merge_in.end_a - 1) \X (merge_in.begin_b .. merge_in.end_b - 1)

\* Cells common to the two intervals of pair p.
PairCells(p) ==
  LET a == merge_in.intervals_a[p[1]]
      b == merge_in.intervals_b[p[2]]
  IN  (a.begin .. a.end - 1) \cap (b.begin .. b.end - 1)

\* The interval a \cap b of a pair with common cells.
PairIntersection(p) ==
  [begin |-> CHOOSE x \in PairCells(p) : \A y \in PairCells(p) : x <= y,
   end |-> (CHOOSE x \in PairCells(p) : \A y \in PairCells(p) : y <= x) + 1]

\* Indices of the output view the merge has written: out_offset .. +count-1.
MergeWritten ==
  merge_in.out_offset .. merge_in.out_offset + merge_out.count - 1

\* C12: the merge of two runs that satisfy I3 returns the number of pairs
\* (a, b) with a non-empty intersection and, in emit mode, writes exactly
\* these intersections, each once, in ascending begin order, at out_offset,
\* out_offset + 1, ...; it writes nowhere else, and nothing in count mode.
C12_MergeContract ==
  merge_pc = "returned" =>
    LET overlapping == { p \in MergePairs : PairCells(p) # {} }
    IN  /\ merge_out.count = Cardinality(overlapping)
        /\ merge_in.CountOnly => merge_out.out = merge_in.intervals_out
        /\ ~merge_in.CountOnly =>
             /\ { merge_out.out[k] : k \in MergeWritten } =
                  { PairIntersection(p) : p \in overlapping }
             /\ \A k \in MergeWritten :
                  k + 1 \in MergeWritten =>
                    merge_out.out[k].begin < merge_out.out[k + 1].begin
             /\ \A k \in DOMAIN merge_out.out \ MergeWritten :
                  merge_out.out[k] = merge_in.intervals_out[k]

\* Emit mode at a row subrange that starts after a neighbouring row, with
\* three intersections written from offset 1.
C12_Witness ==
  /\ merge_pc = "returned"
  /\ ~merge_in.CountOnly
  /\ merge_in.begin_a = 1
  /\ merge_in.out_offset = 1
  /\ merge_out.count = 3

\* max(a.begin, b.begin) and min(a.end, b.end) of pair p.
PairStart(p) ==
  LET a == merge_in.intervals_a[p[1]]
      b == merge_in.intervals_b[p[2]]
  IN  IF a.begin >= b.begin THEN a.begin ELSE b.begin

PairEnd(p) ==
  LET a == merge_in.intervals_a[p[1]]
      b == merge_in.intervals_b[p[2]]
  IN  IF a.end <= b.end THEN a.end ELSE b.end

\* The two intervals of pair p only touch.
Touching(p) ==
  \/ merge_in.intervals_a[p[1]].end = merge_in.intervals_b[p[2]].begin
  \/ merge_in.intervals_b[p[2]].end = merge_in.intervals_a[p[1]].begin

\* C13: intervals are half-open: a pair contributes the output interval
\* [max begin, min end) if and only if max begin < min end; a pair that only
\* touches contributes nothing, and a row whose pairs all touch or are
\* disjoint yields count 0 and no write.
C13_HalfOpen ==
  merge_pc = "returned" =>
    /\ merge_out.count =
         Cardinality({ p \in MergePairs : PairStart(p) < PairEnd(p) })
    /\ ~merge_in.CountOnly =>
         \A p \in MergePairs :
           (PairStart(p) < PairEnd(p)) <=>
             (\E k \in MergeWritten :
                merge_out.out[k] = [begin |-> PairStart(p), end |-> PairEnd(p)])
    /\ \A p \in MergePairs :
         Touching(p) =>
           ~ \E k \in MergeWritten :
               /\ merge_out.out[k].begin = PairStart(p)
               /\ merge_out.out[k].end = PairEnd(p)
    /\ (\A p \in MergePairs : PairStart(p) >= PairEnd(p)) =>
         (merge_out.count = 0 /\ merge_out.out = merge_in.intervals_out)

\* Emit mode on two runs of two intervals each in which a pair touches and
\* no pair overlaps.
C13_Witness ==
  /\ merge_pc = "returned"
  /\ ~merge_in.CountOnly
  /\ merge_in.end_a - merge_in.begin_a = 2
  /\ merge_in.end_b - merge_in.begin_b = 2
  /\ \E p \in MergePairs : Touching(p)
  /\ \A p \in MergePairs : PairStart(p) >= PairEnd(p)

\* Cell (x, k.y, k.z) belongs to mesh M, read through row_keys, row_ptr and
\* intervals by comparisons only.
HasCell(M, x, k) ==
  \E r \in 0 .. M.num_rows - 1 :
    /\ M.row_keys[r] = k
    /\ \E i \in M.row_ptr[r] .. M.row_ptr[r + 1] - 1 :
         M.intervals[i].begin <= x /\ x < M.intervals[i].end

\* Interval bounds stored in the first num_intervals intervals of M.
BoundsOf(M) ==
  UNION { {M.intervals[i].begin, M.intervals[i].end} :
            i \in 0 .. M.num_intervals - 1 }

\* C14: with interval bounds and row keys at INT32_MIN, INT32_MAX - 1 and
\* INT32_MAX the returned mesh holds exactly the cells in both inputs (every
\* interval bound is one of the three values, so the cells at the three
\* values decide all cells), and every bound it stores is a bound of an
\* input: no value has wrapped around.
C14_ExtremeRange ==
  Returned =>
    /\ \A k \in KeysOf(A) \cup KeysOf(B) \cup KeysOf(result) :
         \A x \in {INT32_MIN, INT32_MAX - 1, INT32_MAX} :
           HasCell(result, x, k) <=> (HasCell(A, x, k) /\ HasCell(B, x, k))
    /\ BoundsOf(result) \subseteq BoundsOf(A) \cup BoundsOf(B)

\* Row r of mesh M has no interval.
EmptyRow(M, r) == M.row_ptr[r] = M.row_ptr[r + 1]

\* C15: with inputs that satisfy I1-I3 and have empty rows, a matched row
\* that is empty in A or in B is counted 0 and its key is not in the result,
\* and a returned mesh with at least one row satisfies the CSR invariants:
\* row_ptr non-decreasing up to its last entry, row keys sorted, intervals
\* of each row non-empty, sorted and non-overlapping.
C15_EmptyRowsTolerated ==
  /\ pc = "scan" =>
       \A i \in 0 .. num_rows_out - 1 :
         (EmptyRow(A, out_idx_a[i]) \/ EmptyRow(B, out_idx_b[i])) =>
           row_counts[i] = 0
  /\ Returned =>
       /\ \A ra \in 0 .. A.num_rows - 1 : \A rb \in 0 .. B.num_rows - 1 :
            (A.row_keys[ra] = B.row_keys[rb] /\ (EmptyRow(A, ra) \/ EmptyRow(B, rb)))
              => A.row_keys[ra] \notin KeysOf(result)
       /\ result.num_rows > 0 => verify_csr_invariants(result)

\* C16: whatever capacity and stale contents the workspace has at entry,
\* the returned mesh is structurally equal to the mesh the call returns
\* with a fresh workspace.
C16_WorkspaceIndependence ==
  Returned => meshes_equal(result, intersect_meshes(A, B))

\* A call that reused a stale buffer larger than its row count without
\* reallocating it: the stale value past the last row count is still there.
C16_Witness ==
  /\ pc = "DONE"
  /\ result.num_rows > 0
  /\ Extent(row_counts) > num_rows_out
  /\ row_counts[num_rows_out] = StaleCount

\* C17: no step of intersect_meshes changes A or B (sizes and every element
\* of the three arrays), whichever return path is taken, and the call of
\* mesh_to leaves the mesh it is given unchanged.
C17_InputsUnchanged ==
  [][/\ A' = A
     /\ B' = B
     /\ (xfer_pc = "none" /\ xfer_pc' = "host") =>
          (result' = result /\ xfer_src' = result)]_vars

\* The compacted mesh was returned and then copied to the host.
C17_Witness ==
  /\ ReturnedCompacted
  /\ xfer_pc = "host"
  /\ host.num_rows > 0

\* C18: every returned mesh satisfies all of I1-I4; there is no return of a
\* partial mesh.
C18_NoPartialMesh ==
  Returned => (I1(result) /\ I2(result) /\ I3(result) /\ I4(result))

\* The interval list of M is longer than its row_ptr total.
HasSpareIntervals(M) ==
  M.num_rows > 0 /\ M.num_intervals > M.row_ptr[M.num_rows]

\* M without the intervals past its row_ptr total.
Trimmed(M) ==
  IF M.num_rows = 0 THEN M
  ELSE [M EXCEPT
          !.intervals = [i \in 0 .. M.row_ptr[M.num_rows] - 1 |-> M.intervals[i]],
          !.num_intervals = M.row_ptr[M.num_rows]]

\* C19 as stated: for an input whose interval list is longer than its
\* row_ptr total the call returns no result mesh.
C19_MalformedRejected ==
  (HasSpareIntervals(A) \/ HasSpareIntervals(B)) => ~Returned

\* C19, amended: an input whose interval list is longer than its row_ptr
\* total is accepted without any check; the intervals past row_ptr[num_rows]
\* are never read, and the call returns a mesh structurally equal to the one
\* it returns for the inputs without these intervals.
C19_SpareIntervalsIgnored ==
  Returned => meshes_equal(result, intersect_meshes(Trimmed(A), Trimmed(B)))

\* A carries a spare real interval that overlaps every interval of B, and
\* the compacted mesh was returned.
C19_Witness ==
  /\ ReturnedCompacted
  /\ HasSpareIntervals(A)
  /\ A.intervals[A.num_intervals - 1] = WidestInterval
  /\ result.num_rows > 0

\* Entries of compacted.row_ptr that "intersection_compact_row_ptr" assigns:
\* entry 0, and entry i > 0 when some kept row has i kept rows before it.
CompactRowPtrAssigned ==
  { i \in 0 .. final_num_rows :
      \/ i = 0
      \/ \E j \in 0 .. num_rows_out - 1 :
           has_intervals[j] # 0 /\ kept_before(has_intervals, j) = i }

\* C20: when compaction removes some but not all matched rows, the
\* compacted mesh holds the intervals of the intermediate mesh at the same
\* indices, every kept row j, at its new position r', has row_ptr[r'] =
\* out.row_ptr[j] and row_keys[r'] = out.row_keys[j], and every entry of
\* compacted.row_ptr from 0 to R' is assigned.
C20_CompactionLayout ==
  ReturnedCompacted =>
    /\ \A k \in 0 .. out.num_intervals - 1 :
         compacted.intervals[k] = out.intervals[k]
    /\ \A j \in 0 .. num_rows_out - 1 :
         has_intervals[j] # 0 =>
           /\ compacted.row_ptr[new_positions[j]] = out.row_ptr[j]
           /\ compacted.row_keys[new_positions[j]] = out.row_keys[j]
    /\ CompactRowPtrAssigned = 0 .. final_num_rows

\* Indices at which the output view differs from the view handed to the call.
MergeChanged ==
  { k \in DOMAIN merge_out.out : merge_out.out[k] # merge_in.intervals_out[k] }

\* The return of the same call instantiated with the other value of CountOnly.
OtherInstantiation ==
  row_intersection_impl(~merge_in.CountOnly,
                        merge_in.intervals_a, merge_in.begin_a, merge_in.end_a,
                        merge_in.intervals_b, merge_in.begin_b, merge_in.end_b,
                        merge_in.intervals_out, merge_in.out_offset)

\* C21: on the same two runs the count-only and the emitting instantiation
\* of row_intersection_impl return the same number; the emitting one writes
\* exactly that many intervals, at out_offset .. out_offset + count - 1 and
\* nowhere else; the count-only one writes nothing.
C21_CountEqualsEmit ==
  merge_pc = "returned" =>
    /\ merge_out.count = OtherInstantiation.count
    /\ merge_in.CountOnly =>
         /\ MergeChanged = {}
         /\ { k \in DOMAIN OtherInstantiation.out :
                OtherInstantiation.out[k] # merge_in.intervals_out[k] } = MergeWritten
    /\ ~merge_in.CountOnly =>
         /\ MergeChanged = MergeWritten
         /\ Cardinality(MergeChanged) = merge_out.count
         /\ OtherInstantiation.out = merge_in.intervals_out

\* A count-only call that finds two intersections, for an output offset 1.
C21_Witness ==
  /\ merge_pc = "returned"
  /\ merge_in.CountOnly
  /\ merge_in.out_offset = 1
  /\ merge_out.count = 2

\* Some fence lies strictly between positions i and j of the program order.
FenceBetween(i, j) == \E k \in i + 1 .. j - 1 : program_order[k] = "fence"

\* C23: in every run, an operation that reads a view (a kernel, or a deep
\* copy that brings R, total or R' to the host) comes after a fence that
\* follows every earlier operation that writes that view; and two operations
\* with no fence between them touch disjoint data: neither writes a view the
\* other reads or writes.
C23_FencedReads ==
  \A i \in DOMAIN program_order : \A j \in DOMAIN program_order :
    i < j =>
      LET first == program_order[i]
          second == program_order[j]
      IN  /\ writes_of(first) \cap reads_of(second) # {} => FenceBetween(i, j)
          /\ ~FenceBetween(i, j) =>
               /\ writes_of(first) \cap (reads_of(second) \cup writes_of(second)) = {}
               /\ reads_of(first) \cap writes_of(second) = {}

\* The compacted mesh was returned: the three copy kernels were dispatched
\* one after the other, with one fence after the last.
C23_Witness ==
  /\ ReturnedCompacted
  /\ \E i \in DOMAIN program_order :
       /\ i + 3 = Len(program_order)
       /\ program_order[i] = "intersection_compact_rows"
       /\ program_order[i + 1] = "intersection_compact_row_ptr"
       /\ program_order[i + 2] = "intersection_compact_intervals"
       /\ program_order[i + 3] = "fence"

\* The kernels of the engine in the order of the source, and their phases.
KernelSequence ==
  <<"intersection_row_map", "intersection_row_scan", "intersection_row_compact",
    "intersection_count", "intersection_scan", "intersection_fill",
    "intersection_mark_rows", "intersection_compact_scan",
    "intersection_compact_rows", "intersection_compact_row_ptr",
    "intersection_compact_intervals">>

PhaseOfKernel ==
  <<"MAP_ROWS", "MAP_ROWS", "MAP_ROWS", "COUNT", "SCAN", "EMIT",
    "COMPACT", "COMPACT", "COMPACT", "COMPACT", "COMPACT">>

\* The phases whose kernels have been dispatched so far.
PhasesRun == { PhaseOfKernel[k] : k \in DOMAIN dispatched }

\* C24: the kernels run in the one order MAP_ROWS, COUNT, SCAN, EMIT,
\* COMPACT, each at most once; the run ends in DONE_EMPTY before COUNT when
\* R = 0 and before EMIT when total = 0, and in DONE only after the COMPACT
\* phase; R' = 0 does not occur; a mesh with rows is returned only in DONE.
C24_PhaseOrder ==
  /\ Len(dispatched) <= Len(KernelSequence)
  /\ \A k \in DOMAIN dispatched : dispatched[k] = KernelSequence[k]
  /\ pc = "DONE_EMPTY" =>
       \/ PhasesRun = {} /\ empty_input(A, B)
       \/ PhasesRun = {"MAP_ROWS"} /\ Len(dispatched) = 2 /\ num_rows_out = 0
       \/ PhasesRun = {"MAP_ROWS", "COUNT", "SCAN"} /\ out.num_intervals = 0
  /\ "COUNT" \in PhasesRun => num_rows_out > 0
  /\ (Len(dispatched) >= 2 /\ num_rows_out = 0) => pc = "DONE_EMPTY"
  /\ "EMIT" \in PhasesRun => out.num_intervals > 0
  /\ ("SCAN" \in PhasesRun /\ out.num_intervals = 0) => pc = "DONE_EMPTY"
  /\ pc \in {"fill", "mark_rows", "compact_scan", "compact_copy", "DONE"} =>
       out.num_intervals > 0
  /\ pc = "DONE" =>
       /\ PhasesRun = {"MAP_ROWS", "COUNT", "SCAN", "EMIT", "COMPACT"}
       /\ Len(dispatched) \in {8, Len(KernelSequence)}
       /\ final_num_rows > 0
  /\ result.num_rows > 0 => pc = "DONE"
  /\ Returned => (pc = "DONE_EMPTY" <=> result = EmptyMesh)

\* A run with two matched rows that ended right after SCAN: total = 0.
C24_Witness ==
  /\ pc = "DONE_EMPTY"
  /\ PhasesRun = {"MAP_ROWS", "COUNT", "SCAN"}
  /\ num_rows_out = 2

\* The interval array the fill kernel produces when its iterations run one
\* after the other, in index order, on a zero-initialised array.
FillInOrder ==
  intersection_fill(num_rows_out, out_idx_a, out_idx_b, A, B, out.row_ptr,
                    NewView(Extent(out.intervals), ZeroInterval))

\* The slice of the output interval array that belongs to matched row r.
RowSlice(r) == out.row_ptr[r] .. out.row_ptr[r + 1] - 1

\* The output indices iteration i of the fill kernel has stored to so far:
\* its first `count` stores, from the start of its slice.
StoredBy(i) ==
  IF fill_threads[i].at = "entry" THEN {}
  ELSE out.row_ptr[i] .. out.row_ptr[i] + fill_threads[i].count - 1

\* C22: while the iterations of the fill kernel run, in any order and
\* interleaved step by step, iteration r stores only inside row_ptr_out[r] ..
\* row_ptr_out[r+1]-1; the slices of distinct rows are disjoint; every index
\* is stored to by at most one iteration and holds the value the in-order
\* execution gives it, every other index is untouched; after the fence the
\* interval array is the one the in-order execution produces.
C22_DisjointRowWrites ==
  /\ pc = "fill_running" =>
       /\ \A i \in DOMAIN fill_threads : StoredBy(i) \subseteq RowSlice(i)
       /\ \A i \in DOMAIN fill_threads : \A j \in DOMAIN fill_threads :
            i # j => RowSlice(i) \cap RowSlice(j) = {}
       /\ \A k \in DOMAIN out.intervals :
            IF \E i \in DOMAIN fill_threads : k \in StoredBy(i)
            THEN out.intervals[k] = FillInOrder[k]
            ELSE out.intervals[k] = ZeroInterval
  /\ pc = "mark_rows" => out.intervals = FillInOrder

\* The iteration of row 1 has finished with a store while the iteration of
\* row 0 is between its first and its second store.
C22_Witness ==
  /\ pc = "fill_running"
  /\ num_rows_out = 2
  /\ fill_threads[1].at = "exit"
  /\ fill_threads[1].count > 0
  /\ fill_threads[0].at = "loop"
  /\ fill_threads[0].count = 1
  /\ fill_threads[0].ia < fill_threads[0].end_a
  /\ fill_threads[0].ib < fill_threads[0].end_b

\* Upper bounds on the steps left in the direct merge call, in the direct
\* row search, in iteration i of the fill kernel and in the engine.
MergeStepsLeft ==
  IF merge_pc = "call"
  THEN (merge_in.end_a - merge_in.begin_a) + (merge_in.end_b - merge_in.begin_b) + 2
  ELSE IF merge_pc = "loop"
  THEN (merge_in.end_a - merge_cur.ia) + (merge_in.end_b - merge_cur.ib) + 1
  ELSE 0

SearchStepsLeft ==
  IF search = <<>> THEN 0
  ELSE IF search.at = "loop" THEN (search.hi - search.lo) + 1
  ELSE 0

ThreadStepsLeft(i) ==
  LET th == fill_threads[i]
      r == extract_row_ranges(out_idx_a[i], out_idx_b[i], A.row_ptr, B.row_ptr)
  IN  IF th.at = "entry" THEN (r.end_a - r.begin_a) + (r.end_b - r.begin_b) + 2
      ELSE IF th.at = "loop" THEN (th.end_a - th.ia) + (th.end_b - th.ib) + 1
      ELSE 0

PcStepsLeft ==
  CASE pc = "IDLE" -> 11
    [] pc = "row_map" -> 10
    [] pc = "row_scan" -> 9
    [] pc = "row_compact" -> 8
    [] pc = "count" -> 7
    [] pc = "scan" -> 6
    [] pc = "fill" -> 5
    [] pc = "fill_running" -> 4
    [] pc = "mark_rows" -> 3
    [] pc = "compact_scan" -> 2
    [] pc = "compact_copy" -> 1
    [] OTHER -> 0

EngineStepsLeft ==
  PcStepsLeft * (3 * (A.num_intervals + B.num_intervals) + 1)
    + scan_update([i \in DOMAIN fill_threads |-> ThreadStepsLeft(i)],
                  Extent(fill_threads))

StepsLeft == EngineStepsLeft + MergeStepsLeft + SearchStepsLeft

\* Every call under way has returned.
Finished ==
  /\ Returned
  /\ merge_pc \in {"none", "returned"}
  /\ search = <<>> \/ search.at = "returned"

\* C25: every call terminates.  In the merge loop the number of iterations
\* never exceeds the distance the two cursors have advanced, which is at
\* most (end_a - begin_a) + (end_b - begin_b); each step of the row search
\* leaves at most half of the range; every step of the engine, of a merge
\* and of a search decreases a natural number, and a step is possible until
\* every call has returned (DONE or DONE_EMPTY for the engine).  The loops
\* return what row_intersection_impl and find_row_by_yz return.
C25_Termination ==
  /\ [](/\ merge_pc \in {"loop", "returned"} =>
            /\ merge_cur.ia <= merge_in.end_a
            /\ merge_cur.ib <= merge_in.end_b
            /\ merge_cur.iterations <=
                 (merge_cur.ia - merge_in.begin_a) + (merge_cur.ib - merge_in.begin_b)
            /\ merge_cur.iterations <=
                 (merge_in.end_a - merge_in.begin_a) + (merge_in.end_b - merge_in.begin_b)
        /\ merge_pc = "returned" =>
             merge_out =
               row_intersection_impl(merge_in.CountOnly,
                                     merge_in.intervals_a, merge_in.begin_a,
                                     merge_in.end_a,
                                     merge_in.intervals_b, merge_in.begin_b,
                                     merge_in.end_b,
                                     merge_in.intervals_out, merge_in.out_offset)
        /\ search # <<>> =>
             /\ search.lo <= search.hi
             /\ search.hi <= search.num_rows
             /\ search.steps > 0 =>
                  search.hi - search.lo <= search.width_before \div 2
             /\ search.at = "returned" =>
                  search.ret = find_row_by_yz(search.rows, search.num_rows,
                                              search.y, search.z)
        /\ StepsLeft >= 0
        /\ Finished \/ ENABLED NextSteps)
  /\ [][StepsLeft' < StepsLeft]_vars

\* A direct merge of a run of three intervals with a run of two has
\* returned after four iterations.
C25_Witness ==
  /\ merge_pc = "returned"
  /\ merge_in.end_a - merge_in.begin_a = 3
  /\ merge_in.end_b - merge_in.begin_b = 2
  /\ merge_cur.iterations = 4

\* Keys present in both inputs.
CommonKeys == KeysOf(A) \cap KeysOf(B)

\* The row-compaction kernel of the MAP_ROWS phase has run.
RowMappingDone == Len(dispatched) >= 3

\* C26: find_row_by_yz returns the index of the key in a sorted key array
\* when the key is present and -1 when it is absent; after the row mapping
\* the packed arrays list every key common to A and B exactly once, with
\* non-negative indices such that A.row_keys[out_idx_a[r]] =
\* B.row_keys[out_idx_b[r]] = out_row_keys[r], whichever input is the smaller.
C26_RowMapping ==
  /\ pc = "row_map" =>
       \A M \in {A, B} : \A y \in YCoords : \A z \in ZCoords :
         LET ret == find_row_by_yz(M.row_keys, M.num_rows, y, z)
         IN  IF [y |-> y, z |-> z] \in KeysOf(M)
             THEN ret \in 0 .. M.num_rows - 1 /\ M.row_keys[ret] = [y |-> y, z |-> z]
             ELSE ret = -1
  /\ RowMappingDone =>
       /\ Extent(out_rows) = num_rows_out
       /\ Extent(out_idx_a) = num_rows_out
       /\ Extent(out_idx_b) = num_rows_out
       /\ \A r \in 0 .. num_rows_out - 1 :
            /\ out_idx_a[r] \in 0 .. A.num_rows - 1
            /\ out_idx_b[r] \in 0 .. B.num_rows - 1
            /\ A.row_keys[out_idx_a[r]] = out_rows[r]
            /\ B.row_keys[out_idx_b[r]] = out_rows[r]
       /\ { out_rows[r] : r \in 0 .. num_rows_out - 1 } = CommonKeys
       /\ num_rows_out = Cardinality(CommonKeys)

\* B has fewer rows than A, two keys are common, and a row of A before the
\* first common key is skipped.
C26_Witness ==
  /\ RowMappingDone
  /\ ~small_is_a
  /\ num_rows_out = 2
  /\ out_idx_a[0] = 1
  /\ out_idx_b[0] = 0

\* The SCAN phase has run.
ScanDone == Len(dispatched) >= 5

\* C27: each of the three scans is an exclusive prefix sum.  After the row
\* scan positions[i] is the number of matched rows before i and the total is
\* R; after SCAN row_ptr_out[0] = 0, row_ptr_out[r+1] = row_ptr_out[r] +
\* row_counts[r] for r < R, and row_ptr_out[R] is the total, which is the
\* num_intervals of the result; after the compaction scan new_positions[i] is
\* the number of kept rows before i and the total is R'.
C27_ExclusivePrefixSums ==
  /\ Len(dispatched) >= 2 =>
       /\ positions[0] = 0
       /\ \A i \in 0 .. n_small - 2 : positions[i + 1] = positions[i] + flags[i]
       /\ num_rows_out = positions[n_small - 1] + flags[n_small - 1]
  /\ ScanDone =>
       /\ out.row_ptr[0] = 0
       /\ \A r \in 0 .. num_rows_out - 1 :
            out.row_ptr[r + 1] = out.row_ptr[r] + row_counts[r]
       /\ out.row_ptr[num_rows_out] = out.num_intervals
       /\ pc = "DONE" => result.num_intervals = out.num_intervals
  /\ Len(dispatched) >= 8 =>
       /\ new_positions[0] = 0
       /\ \A i \in 0 .. num_rows_out - 2 :
            new_positions[i + 1] = new_positions[i] + has_intervals[i]
       /\ final_num_rows =
            new_positions[num_rows_out - 1] + has_intervals[num_rows_out - 1]

\* The result was returned with three intervals spread over two rows, the
\* first row holding two of them.
C27_Witness ==
  /\ pc = "DONE"
  /\ num_rows_out = 2
  /\ row_counts[0] = 2
  /\ out.row_ptr[1] = 2
  /\ out.row_ptr[2] = 3

\* Number of intervals the fill kernel stores for matched row r.
EmitCount(r) ==
  LET rg == extract_row_ranges(out_idx_a[r], out_idx_b[r], A.row_ptr, B.row_ptr)
  IN  row_intersection_impl(FALSE, A.intervals, rg.begin_a, rg.end_a,
                            B.intervals, rg.begin_b, rg.end_b,
                            out.intervals, out.row_ptr[r]).count

\* C29: every index written is inside the array written.  The scatter of
\* the row mapping writes positions below R; the total of SCAN is at most
\* A.num_intervals + B.num_intervals, the capacity of the output interval
\* array, and every index the fill kernel stores to is below that capacity;
\* the compaction writes row positions below R', row_ptr indices up to R'
\* and interval indices below the total.
C29_WritesInBounds ==
  /\ pc = "row_compact" =>
       \A i \in 0 .. n_small - 1 : flags[i] # 0 => positions[i] < num_rows_out
  /\ RowMappingDone =>
       /\ Extent(out.intervals) = A.num_intervals + B.num_intervals
       /\ Extent(out.row_ptr) = num_rows_out + 1
       /\ Extent(row_counts) >= num_rows_out
  /\ ScanDone => out.num_intervals <= Extent(out.intervals)
  /\ pc = "fill" =>
       \A r \in 0 .. num_rows_out - 1 :
         \A k \in 0 .. EmitCount(r) - 1 :
           out.row_ptr[r] + k \in DOMAIN out.intervals
  /\ pc = "compact_copy" =>
       \A i \in 0 .. num_rows_out - 1 :
         has_intervals[i] # 0 => new_positions[i] < final_num_rows
  /\ ReturnedCompacted =>
       /\ Extent(compacted.row_keys) = final_num_rows
       /\ Extent(compacted.row_ptr) = final_num_rows + 1
       /\ out.num_intervals <= Extent(compacted.intervals)

\* The fill kernel is about to store three intervals for two rows, the last
\* one at index 2 of an output array of capacity 5.
C29_Witness ==
  /\ pc = "fill"
  /\ num_rows_out = 2
  /\ out.num_intervals = 3
  /\ Extent(out.intervals) = 5
  /\ EmitCount(1) > 0
  /\ out.row_ptr[1] + EmitCount(1) - 1 = 2

\* The request a step makes, when the step is a request.
LastRequest == requests'[Len(requests')]

\* C28: over successive requests on one workspace the capacity of each slot
\* never decreases and is at least every size requested of the slot so far;
\* a request the slot already fits leaves the buffer and its allocation as
\* they are.
C28_WorkspaceCapacity ==
  /\ [](\A k \in 1 .. Len(requests) :
          Extent(size_t_bufs_[requests[k].idx]) >= requests[k].size)
  /\ [][/\ \A idx \in 0 .. NUM_SIZE_T_BUFS - 1 :
            Extent(size_t_bufs_'[idx]) >= Extent(size_t_bufs_[idx])
        /\ (/\ Len(requests') = Len(requests) + 1
            /\ Extent(size_t_bufs_[LastRequest.idx]) >= LastRequest.size)
             => size_t_bufs_' = size_t_bufs_ /\ ws_alloc' = ws_alloc]_vars

\* Slot 0 was grown to 3 by the first request and kept its allocation
\* through two smaller requests; slot 1 was never requested.
C28_Witness ==
  /\ Len(requests) = 3
  /\ requests[1] = [idx |-> 0, size |-> 3]
  /\ requests[2] = [idx |-> 0, size |-> 1]
  /\ requests[3] = [idx |-> 0, size |-> 2]
  /\ Extent(size_t_bufs_[0]) = 3
  /\ ws_alloc[0] = allocation(1, ws_label(0))
  /\ ws_alloc[1] = NullAlloc

\* The allocations behind the arrays of a mesh.
ArraysOf(al) == {al.row_keys, al.row_ptr, al.intervals} \ {NullAlloc}

\* The allocations behind the workspace buffers.
WorkspaceAllocs == { ws_alloc[b] : b \in 0 .. NUM_SIZE_T_BUFS - 1 }

\* C30: the arrays of a returned mesh are its own: none of them is an array
\* of an input, a workspace buffer, or an array of a mesh returned earlier;
\* no kernel of a later call writes to them, and the meshes the caller holds
\* stay as they were returned through every later call on the workspace.
C30_ResultOwnsArrays ==
  /\ [](/\ Returned =>
            /\ ArraysOf(result_alloc) \cap (InputAllocs \cup WorkspaceAllocs) = {}
            /\ result.num_rows > 0 => Cardinality(ArraysOf(result_alloc)) = 3
            /\ \A h \in DOMAIN held :
                 ArraysOf(result_alloc) \cap ArraysOf(held[h].alloc) = {}
        /\ \A h \in DOMAIN held :
             /\ ArraysOf(held[h].alloc) \cap (InputAllocs \cup WorkspaceAllocs) = {}
             /\ \A k \in 1 .. Len(program_order) :
                  \A v \in writes_of(program_order[k]) :
                    alloc_of(v) \notin ArraysOf(held[h].alloc))
  /\ [][\A h \in DOMAIN held : held'[h] = held[h]]_vars

\* The second call returned a one-row mesh while the caller holds the
\* two-row mesh of the first call, and the second call reused the row_counts
\* buffer the first call allocated.
C30_Witness ==
  /\ call = 2
  /\ pc = "DONE"
  /\ result.num_rows = 1
  /\ Len(held) = 1
  /\ held[1].mesh.num_rows = 2
  /\ ws_alloc[0] = allocation(1, ws_label(0))

====
